---------------------------- MODULE Spec2Model ----------------------------
(***************************************************************************)
(* Model of the Atmosphere mesh core (src/core/src): the capability        *)
(* registry, the cost collector, the intent router, the mesh client and    *)
(* the node that owns them.                                                *)
(*                                                                         *)
(* Costs are f32 values in the source.  They are modelled as fixed-point   *)
(* integers in units of 1/OneCost, a capability's cost_weight in units of  *)
(* 1/WeightOne.  All values the model draws are chosen so that every       *)
(* product and quotient below is exact.                                    *)
(*                                                                         *)
(* Option<T> is modelled as a sequence: <<>> is None, <<x>> is Some(x).    *)
(* Uuid::new_v4() / NodeId::new() draw a value from a pool of ids that no  *)
(* other object carries (FreshIds), chosen nondeterministically.           *)
(***************************************************************************)
EXTENDS Integers, Sequences, FiniteSets, TLC

VARIABLES
    local,          \* CapabilityRegistry.local : HashMap<Uuid, Capability>
    remote,         \* CapabilityRegistry.remote : HashMap<NodeId, Vec<Capability>>
    registry_locks, \* per RwLock of the registry: the callers holding its read guard
    totals_seen,    \* history: the totals the registry has had since the total_count
                    \* call in progress began
    peer_costs,     \* CostCollector.peer_costs : HashMap<NodeId, NodeCost>
    weights,        \* CostCollector.weights : CostWeights
    metrics,        \* the readings of the PlatformMetrics provider
    local_node_id,  \* IntentRouter.local_node_id : Option<NodeId>
    active_intents, \* IntentRouter.active_intents : HashMap<Uuid, TrackedIntent>
    last,           \* the router or mesh call that has just returned, with what it returned
    config,         \* AtmosphereNode.config : NodeConfig
    state,          \* AtmosphereNode.state : RwLock<NodeState>, the value
    state_lock,     \* AtmosphereNode.state : RwLock<NodeState>, the writer holding it
    mesh_client,    \* AtmosphereNode.mesh_client : Option<MeshClient>
    clients_created, \* the number of MeshClient::new calls made so far
    pc,             \* per caller: where its call of start / stop stands
    ret             \* per caller: what its last call of the node returned

vars == <<local, remote, registry_locks, totals_seen, peer_costs, weights, metrics, local_node_id,
          active_intents, last, config, state, state_lock, mesh_client,
          clients_created, pc, ret>>

nodeVars == <<config, state, state_lock, mesh_client, clients_created, pc, ret>>

registryVars == <<local, remote, registry_locks, totals_seen>>
costVars == <<peer_costs, weights, metrics>>

---------------------------------------------------------------------------
(* Bounds of the model *)

MaxPeers == 2
MaxIntents == 2
MaxStarts == 2

(* Fixed-point units *)

OneCost == 100000
WeightOne == 10

Peers == 1..MaxPeers
LocalCapIds == {1, 2}
IntentIds == 1..MaxIntents

\* AtmosphereNode.id, the id handed to set_local_node_id
SelfId == 0
\* ids minted by NodeId::new() on the spot
FreshIds == {-1, -2}

IntentTypes == {"camera", "nonexistent"}
CostWeightValues == {WeightOne, 2 * WeightOne}
PeerCostValues == {20000}
MaxCostValues == {22000, 40000, OneCost}

None == <<>>
Some(x) == <<x>>

\* RwLock::default() for both maps of the registry: nobody holds a guard
Unlocked == [local |-> {}, remote |-> {}]

---------------------------------------------------------------------------
(* capability.rs *)

\* Capability::new(..).with_cost_weight(w), with the pub field `available`
Capability(id, type, avail, weight) ==
    [id |-> id, capability_type |-> type, available |-> avail, cost_weight |-> weight]

\* the id of the k-th capability a peer advertises (a Uuid of its own)
RemoteCapId(p, k) == 10 * p + k

\* the local capabilities a host may register
LocalCapabilities ==
    {Capability(id, "camera", a, WeightOne) : id \in LocalCapIds, a \in BOOLEAN}

\* the capability lists peer p may advertise
AdvertisedLists(p) ==
    {<<Capability(RemoteCapId(p, 1), "camera", TRUE, w)>> : w \in CostWeightValues}
    \cup {<<Capability(RemoteCapId(p, 1), "camera", FALSE, WeightOne)>>}
    \cup {<<Capability(RemoteCapId(p, 1), "camera", TRUE, 2 * WeightOne),
             Capability(RemoteCapId(p, 2), "camera", TRUE, WeightOne)>>}

\* CapabilityRegistry::get
get(id) == IF id \in DOMAIN local THEN Some(local[id]) ELSE None

\* mutant: the available flag is not looked at
find_local_by_type_any(capability_type) ==
    {id \in DOMAIN local : local[id].capability_type = capability_type}

find_local_by_type(capability_type) ==
    {id \in DOMAIN local :
        local[id].capability_type = capability_type /\ local[id].available}

\* mutant: every capability of the peer is taken, whatever its type and
\* availability
RECURSIVE PeerMatchesAny(_, _, _)
PeerMatchesAny(node_id, caps, capability_type) ==
    IF caps = <<>> THEN <<>>
    ELSE <<<<node_id, Head(caps)>>>> \o PeerMatchesAny(node_id, Tail(caps), capability_type)

\* one peer's contribution to find_peers_with_capability: its matching
\* capabilities in list order, each paired with the peer
RECURSIVE PeerMatches(_, _, _)
PeerMatches(node_id, caps, capability_type) ==
    IF caps = <<>> THEN <<>>
    ELSE LET c == Head(caps)
             rest == PeerMatches(node_id, Tail(caps), capability_type)
         IN  IF c.capability_type = capability_type /\ c.available
             THEN <<<<node_id, c>>>> \o rest
             ELSE rest

\* `order` is the order in which the HashMap iterator yields the peers
RECURSIVE find_peers_with_capability(_, _)
find_peers_with_capability(order, capability_type) ==
    IF order = <<>> THEN <<>>
    ELSE PeerMatches(Head(order), remote[Head(order)], capability_type)
         \o find_peers_with_capability(Tail(order), capability_type)

\* every order a HashMap over the keys S may iterate in
has_local_capability(capability_type) ==
    \E id \in DOMAIN local :
        local[id].capability_type = capability_type /\ local[id].available

get_remote(node_id) ==
    IF node_id \in DOMAIN remote THEN remote[node_id] ELSE <<>>

RECURSIVE IterationOrders(_)
IterationOrders(S) ==
    IF S = {} THEN {<<>>}
    ELSE UNION {{<<x>> \o o : o \in IterationOrders(S \ {x})} : x \in S}

---------------------------------------------------------------------------
(* cost.rs *)

DefaultWeights == [battery |-> 40, cpu |-> 25, memory |-> 20, network |-> 15]
CpuHeavyWeights == [battery |-> 10, cpu |-> 60, memory |-> 20, network |-> 10]

\* readings of the metrics provider: battery in percent, cpu in percent of load
PluggedIn == [battery |-> Some(80), on_battery |-> FALSE, cpu |-> 20,
              memory_mb |-> 2048, total_memory_mb |-> 4096]
LowBattery == [battery |-> Some(15), on_battery |-> TRUE, cpu |-> 90,
               memory_mb |-> 1024, total_memory_mb |-> 4096]
MetricsReadings == {PluggedIn, LowBattery}

calculate_battery_cost ==
    IF ~metrics.on_battery THEN OneCost \div 10
    ELSE IF metrics.battery = None THEN OneCost \div 2
    ELSE LET percent == metrics.battery[1]
         IN  IF percent <= 10 THEN OneCost
             ELSE IF percent <= 20 THEN (OneCost \div 10) * 8
             ELSE OneCost - percent * ((OneCost \div 1000) * 8)

calculate_memory_cost ==
    IF metrics.total_memory_mb = 0 THEN OneCost \div 2
    ELSE LET usage_ratio ==
                 OneCost - (metrics.memory_mb * OneCost) \div metrics.total_memory_mb
         IN  IF usage_ratio < 0 THEN 0
             ELSE IF usage_ratio > OneCost THEN OneCost
             ELSE usage_ratio

\* total_cost of CostCollector::calculate_local_cost (the weights are in percent)
calculate_local_cost ==
    LET battery_cost == calculate_battery_cost
        cpu_cost == metrics.cpu * (OneCost \div 100)
        memory_cost == calculate_memory_cost
        network_cost == OneCost \div 5
    IN  (battery_cost * weights.battery + cpu_cost * weights.cpu
         + memory_cost * weights.memory + network_cost * weights.network) \div 100

NodeCost(total) == [total_cost |-> total]

get_peer_cost(node_id) ==
    IF node_id \in DOMAIN peer_costs THEN Some(peer_costs[node_id]) ELSE None

\* mutant: the entry goes to the front whatever it costs
InsertByCostFront(entry, sorted) == <<entry>> \o sorted

\* where sort_by puts one more entry: a stable sort leaves it behind the
\* entries that cost as much and came before it
RECURSIVE InsertByCost(_, _)
InsertByCost(entry, sorted) ==
    IF sorted = <<>> THEN <<entry>>
    ELSE IF Head(sorted)[2].total_cost <= entry[2].total_cost
         THEN <<Head(sorted)>> \o InsertByCost(entry, Tail(sorted))
         ELSE <<entry>> \o sorted

\* costs.sort_by(total_cost) over the entries collected in the order `order`
RECURSIVE SortByCost(_)
SortByCost(order) ==
    IF order = <<>> THEN <<>>
    ELSE LET n == order[Len(order)]
         IN  InsertByCost(<<n, peer_costs[n]>>, SortByCost(SubSeq(order, 1, Len(order) - 1)))

\* .iter().min_by(total_cost) over the order `order`, which is not empty:
\* of several minimal entries the first one is kept
RECURSIVE MinByCost(_)
MinByCost(order) ==
    IF Len(order) = 1 THEN order[1]
    ELSE LET rest == MinByCost(Tail(order))
         IN  IF peer_costs[Head(order)].total_cost <= peer_costs[rest].total_cost
             THEN Head(order)
             ELSE rest

---------------------------------------------------------------------------
(* intent.rs: data *)

\* the fields of Intent the router reads or stores and later reads back
\* (action, params, priority and timeout_ms are never read by the core)
Intent(id, type, max_cost, prefer_local, created_at_ms) ==
    [id |-> id, capability_type |-> type, max_cost |-> max_cost,
     prefer_local |-> prefer_local, created_at_ms |-> created_at_ms]

\* IntentStatus, one record shape for every variant
Pending == [kind |-> "Pending", target |-> None, reason |-> ""]
Routed(target) == [kind |-> "Routed", target |-> Some(target), reason |-> ""]
Executing(target) == [kind |-> "Executing", target |-> Some(target), reason |-> ""]
Completed(target) == [kind |-> "Completed", target |-> Some(target), reason |-> ""]
Failed(reason) == [kind |-> "Failed", target |-> None, reason |-> reason]
TimedOut == [kind |-> "TimedOut", target |-> None, reason |-> ""]
Cancelled == [kind |-> "Cancelled", target |-> None, reason |-> ""]

TrackedIntent(intent, status, result) ==
    [intent |-> intent, status |-> status, result |-> result]

RoutingDecision(target, is_local, cost, capability_id) ==
    [target |-> target, is_local |-> is_local, cost |-> cost,
     capability_id |-> capability_id]

NoCapableNode == "No capable node found"
NoPeerWithinBudget == "No peer within cost budget"

\* what a route call hands back: Ok(decision) or Err(NoCapablePeer), together
\* with the status it gave to update_status
RouteOk(decision) ==
    [ok |-> TRUE, err |-> "", decision |-> Some(decision),
     status |-> Routed(decision.target)]
RouteErr(reason) ==
    [ok |-> FALSE, err |-> "NoCapablePeer", decision |-> None,
     status |-> Failed(reason)]

---------------------------------------------------------------------------
(* intent.rs: IntentRouter *)

\* HashMap::insert
Insert(map, key, value) ==
    [k \in DOMAIN map \cup {key} |-> IF k = key THEN value ELSE map[k]]

\* HashMap::remove / retain
Restrict(map, keys) == [k \in keys |-> map[k]]

\* the cost route compares for one remote candidate
EffectiveCost(node_id, cap) ==
    LET c == get_peer_cost(node_id)
    IN  IF c = None THEN OneCost \div 2
        ELSE (c[1].total_cost * cap.cost_weight) \div WeightOne

\* mutant: a candidate exactly at the budget is passed over
BestPeerStepStrictBudget(best_peer, node_id, cap, max_cost) ==
    LET cost == EffectiveCost(node_id, cap)
        this == [node_id |-> node_id, cap_id |-> cap.id, cost |-> cost]
    IN  IF cost < max_cost
        THEN IF best_peer = None THEN Some(this)
             ELSE IF cost < best_peer[1].cost THEN Some(this)
             ELSE best_peer
        ELSE best_peer

\* mutant: the first candidate within budget is kept, cheaper ones ignored
BestPeerStepFirstFit(best_peer, node_id, cap, max_cost) ==
    LET cost == EffectiveCost(node_id, cap)
        this == [node_id |-> node_id, cap_id |-> cap.id, cost |-> cost]
    IN  IF cost <= max_cost /\ best_peer = None THEN Some(this) ELSE best_peer

\* mutant: a later candidate of equal cost replaces the best one
BestPeerStepLastWins(best_peer, node_id, cap, max_cost) ==
    LET cost == EffectiveCost(node_id, cap)
        this == [node_id |-> node_id, cap_id |-> cap.id, cost |-> cost]
    IN  IF cost <= max_cost
        THEN IF best_peer = None THEN Some(this)
             ELSE IF cost <= best_peer[1].cost THEN Some(this)
             ELSE best_peer
        ELSE best_peer

\* the body of route's loop over remote_caps for one candidate
BestPeerStep(best_peer, node_id, cap, max_cost) ==
    LET cost == EffectiveCost(node_id, cap)
        this == [node_id |-> node_id, cap_id |-> cap.id, cost |-> cost]
    IN  IF cost <= max_cost
        THEN IF best_peer = None THEN Some(this)
             ELSE IF cost < best_peer[1].cost THEN Some(this)
             ELSE best_peer
        ELSE best_peer

RECURSIVE BestPeer(_, _, _)
BestPeer(remote_caps, max_cost, best_peer) ==
    IF remote_caps = <<>> THEN best_peer
    ELSE BestPeer(Tail(remote_caps), max_cost,
                  BestPeerStep(best_peer, Head(remote_caps)[1],
                               Head(remote_caps)[2], max_cost))

\* mutant: the preference flag is read the wrong way round
LocalFastPathInverted(intent, local_caps, local_cost) ==
    local_caps # {} /\ ~intent.prefer_local /\ local_cost <= intent.max_cost

\* the local-preference test of route
LocalFastPath(intent, local_caps, local_cost) ==
    local_caps # {} /\ intent.prefer_local /\ local_cost <= intent.max_cost

\* mutant: the local fallback applies the budget as the fast path does
RouteDecideBudgetedFallback(intent, local_caps, cap0, local_id, remote_caps) ==
    LET local_cost == calculate_local_cost
        localDecision == RoutingDecision(local_id, TRUE, local_cost, cap0)
    IN  IF LocalFastPath(intent, local_caps, local_cost) THEN RouteOk(localDecision)
        ELSE IF remote_caps = <<>> /\ local_caps = {} THEN RouteErr(NoCapableNode)
        ELSE LET best_peer == BestPeer(remote_caps, intent.max_cost, None)
             IN  IF best_peer = None /\ local_caps # {}
                    /\ local_cost <= intent.max_cost
                 THEN RouteOk(localDecision)
                 ELSE IF best_peer # None
                 THEN RouteOk(RoutingDecision(best_peer[1].node_id, FALSE,
                                              best_peer[1].cost, best_peer[1].cap_id))
                 ELSE RouteErr(NoPeerWithinBudget)

\* route after the intent is tracked: local_caps is find_local_by_type's answer,
\* cap0 its first element, local_id the router's id or a throwaway one
\* mutant: with no peer within budget the request fails, local capability or not
RouteDecideNoFallback(intent, local_caps, cap0, local_id, remote_caps) ==
    LET local_cost == calculate_local_cost
        localDecision == RoutingDecision(local_id, TRUE, local_cost, cap0)
    IN  IF LocalFastPath(intent, local_caps, local_cost) THEN RouteOk(localDecision)
        ELSE IF remote_caps = <<>> /\ local_caps = {} THEN RouteErr(NoCapableNode)
        ELSE LET best_peer == BestPeer(remote_caps, intent.max_cost, None)
             IN  IF best_peer # None
                 THEN RouteOk(RoutingDecision(best_peer[1].node_id, FALSE,
                                              best_peer[1].cost, best_peer[1].cap_id))
                 ELSE RouteErr(NoPeerWithinBudget)

RouteDecide(intent, local_caps, cap0, local_id, remote_caps) ==
    LET local_cost == calculate_local_cost
        localDecision == RoutingDecision(local_id, TRUE, local_cost, cap0)
    IN  IF LocalFastPath(intent, local_caps, local_cost) THEN RouteOk(localDecision)
        ELSE IF remote_caps = <<>> /\ local_caps = {} THEN RouteErr(NoCapableNode)
        ELSE LET best_peer == BestPeer(remote_caps, intent.max_cost, None)
             IN  IF best_peer = None /\ local_caps # {} THEN RouteOk(localDecision)
                 ELSE IF best_peer # None
                 THEN RouteOk(RoutingDecision(best_peer[1].node_id, FALSE,
                                              best_peer[1].cost, best_peer[1].cap_id))
                 ELSE RouteErr(NoPeerWithinBudget)

update_status(intents, intent_id, status) ==
    IF intent_id \in DOMAIN intents
    THEN [intents EXCEPT ![intent_id].status = status]
    ELSE intents

get_status(intent_id) ==
    IF intent_id \in DOMAIN active_intents
    THEN Some(active_intents[intent_id].status) ELSE None

get_result(intent_id) ==
    IF intent_id \in DOMAIN active_intents
    THEN active_intents[intent_id].result ELSE None

\* the record of a call: its name, the intent id it was given, its other
\* arguments and what it returned
Idle ==
    [op |-> "none", id |-> 0, ok |-> TRUE, err |-> "", decision |-> None,
     remote_caps |-> <<>>, result |-> None]
Called(op, id) == [Idle EXCEPT !.op = op, !.id = id]

---------------------------------------------------------------------------
(* Operations of the registry, the cost collector and the metrics provider *)

\* total_count's sum over the values of the remote map
RECURSIVE RemoteCount(_, _)
RemoteCount(map, keys) ==
    IF keys = {} THEN 0
    ELSE LET n == CHOOSE k \in keys : TRUE
         IN  Len(map[n]) + RemoteCount(map, keys \ {n})

\* what total_count would return were it to read both maps at one instant
Total(local_map, remote_map) ==
    Cardinality(DOMAIN local_map) + RemoteCount(remote_map, DOMAIN remote_map)

\* the history after a write that leaves the maps as given: the new total is
\* noted while a total_count call is between its two reads
Witnessed(local_map, remote_map) ==
    IF \E p \in DOMAIN pc : pc[p].at = "total_count_remote"
    THEN totals_seen \cup {Total(local_map, remote_map)}
    ELSE totals_seen

register(capability) ==
    /\ registry_locks.local = {}
    /\ local' = Insert(local, capability.id, capability)
    /\ totals_seen' = Witnessed(local', remote)
    /\ last' = [Called("register", capability.id) EXCEPT !.result = Some(capability)]
    /\ UNCHANGED <<remote, registry_locks, costVars, local_node_id, active_intents, nodeVars>>

\* mutant: unregister returns the capability and leaves it registered
unregister_keeps(id) ==
    /\ registry_locks.local = {}
    /\ last' = [Called("unregister", id) EXCEPT !.result = get(id)]
    /\ UNCHANGED <<registryVars, costVars, local_node_id, active_intents, nodeVars>>

unregister(id) ==
    /\ registry_locks.local = {}
    /\ local' = Restrict(local, DOMAIN local \ {id})
    /\ totals_seen' = Witnessed(local', remote)
    /\ last' = [Called("unregister", id) EXCEPT !.result = get(id)]
    /\ UNCHANGED <<remote, registry_locks, costVars, local_node_id, active_intents, nodeVars>>

\* mutant: the new list is appended to the peer's old one
update_remote_merging(node_id, capabilities) ==
    /\ registry_locks.remote = {}
    /\ remote' = Insert(remote, node_id, get_remote(node_id) \o capabilities)
    /\ totals_seen' = Witnessed(local, remote')
    /\ last' = [Called("update_remote", node_id) EXCEPT !.result = Some(capabilities)]
    /\ UNCHANGED <<local, registry_locks, costVars, local_node_id, active_intents, nodeVars>>

update_remote(node_id, capabilities) ==
    /\ registry_locks.remote = {}
    /\ remote' = Insert(remote, node_id, capabilities)
    /\ totals_seen' = Witnessed(local, remote')
    /\ last' = [Called("update_remote", node_id) EXCEPT !.result = Some(capabilities)]
    /\ UNCHANGED <<local, registry_locks, costVars, local_node_id, active_intents, nodeVars>>

remove_remote(node_id) ==
    /\ registry_locks.remote = {}
    /\ remote' = Restrict(remote, DOMAIN remote \ {node_id})
    /\ totals_seen' = Witnessed(local, remote')
    /\ last' = Called("remove_remote", node_id)
    /\ UNCHANGED <<local, registry_locks, costVars, local_node_id, active_intents, nodeVars>>

update_peer_cost(node_id, cost) ==
    /\ peer_costs' = Insert(peer_costs, node_id, cost)
    /\ last' = Idle
    /\ UNCHANGED <<registryVars, weights, metrics, local_node_id, active_intents, nodeVars>>

remove_peer_cost(node_id) ==
    /\ peer_costs' = Restrict(peer_costs, DOMAIN peer_costs \ {node_id})
    /\ last' = Idle
    /\ UNCHANGED <<registryVars, weights, metrics, local_node_id, active_intents, nodeVars>>

\* `order` is the order in which the HashMap yields the entries
get_sorted_peer_costs ==
    /\ \E order \in IterationOrders(DOMAIN peer_costs) :
          last' = [Called("get_sorted_peer_costs", 0) EXCEPT
                      !.result = Some(SortByCost(order))]
    /\ UNCHANGED <<registryVars, costVars, local_node_id, active_intents, nodeVars>>

find_lowest_cost_peer ==
    /\ \E order \in IterationOrders(DOMAIN peer_costs) :
          last' = [Called("find_lowest_cost_peer", 0) EXCEPT
                      !.result = IF order = <<>> THEN None ELSE Some(MinByCost(order))]
    /\ UNCHANGED <<registryVars, costVars, local_node_id, active_intents, nodeVars>>

set_weights(w) ==
    /\ weights' = w
    /\ last' = Idle
    /\ UNCHANGED <<registryVars, peer_costs, metrics, local_node_id, active_intents, nodeVars>>

\* the platform's readings change under the provider
MetricsChange(m) ==
    /\ metrics' = m
    /\ last' = Idle
    /\ UNCHANGED <<registryVars, peer_costs, weights, local_node_id, active_intents, nodeVars>>

---------------------------------------------------------------------------
(* Operations of the intent router *)

set_local_node_id(node_id) ==
    /\ local_node_id' = Some(node_id)
    /\ last' = Idle
    /\ UNCHANGED <<registryVars, costVars, active_intents, nodeVars>>

route(intent) ==
    LET tracked == Insert(active_intents, intent.id,
                          TrackedIntent(intent, Pending, None))
        local_caps == find_local_by_type(intent.capability_type)
        queried == ~LocalFastPath(intent, local_caps, calculate_local_cost)
    IN  \E order \in IterationOrders(DOMAIN remote),
           cap0 \in (IF local_caps = {} THEN {0} ELSE local_caps),
           local_id \in (IF local_node_id = None THEN FreshIds
                         ELSE {local_node_id[1]}) :
            LET remote_caps ==
                    IF queried
                    THEN find_peers_with_capability(order, intent.capability_type)
                    ELSE <<>>
                out == RouteDecide(intent, local_caps, cap0, local_id, remote_caps)
            IN  /\ active_intents' = update_status(tracked, intent.id, out.status)
                /\ last' = [op |-> "route", id |-> intent.id, ok |-> out.ok,
                            err |-> out.err, decision |-> out.decision,
                            remote_caps |-> remote_caps, result |-> None]
                /\ UNCHANGED <<registryVars, costVars, local_node_id, nodeVars>>

\* the target complete stamps on the Completed status
\* mutant: complete never carries the routed target over
CompleteTargetFresh(status, fresh) == fresh

CompleteTarget(status, fresh) ==
    IF status.kind \in {"Routed", "Executing"} THEN status.target[1] ELSE fresh

complete(intent_id, result) ==
    /\ \E fresh \in FreshIds :
          active_intents' =
              IF intent_id \in DOMAIN active_intents
              THEN [active_intents EXCEPT
                      ![intent_id].status =
                          Completed(CompleteTarget(active_intents[intent_id].status, fresh)),
                      ![intent_id].result = Some(result)]
              ELSE active_intents
    /\ last' = [Called("complete", intent_id) EXCEPT !.result = Some(result)]
    /\ UNCHANGED <<registryVars, costVars, local_node_id, nodeVars>>

fail(intent_id, reason) ==
    /\ active_intents' = update_status(active_intents, intent_id, Failed(reason))
    /\ last' = Called("fail", intent_id)
    /\ UNCHANGED <<registryVars, costVars, local_node_id, nodeVars>>

cancel(intent_id) ==
    /\ active_intents' = update_status(active_intents, intent_id, Cancelled)
    /\ last' = Called("cancel", intent_id)
    /\ UNCHANGED <<registryVars, costVars, local_node_id, nodeVars>>

IsTerminal(status) == status.kind \in {"Completed", "Failed", "Cancelled", "TimedOut"}

\* mutant: cleanup drops by age whatever the status
CleanupRetainsByAge(tracked, now_ms, max_age_ms) ==
    LET age == IF now_ms >= tracked.intent.created_at_ms
               THEN now_ms - tracked.intent.created_at_ms ELSE 0
    IN  age < max_age_ms

\* the closure cleanup hands to retain; now_ms is what the system clock reads
CleanupRetains(tracked, now_ms, max_age_ms) ==
    LET age == IF now_ms >= tracked.intent.created_at_ms
               THEN now_ms - tracked.intent.created_at_ms ELSE 0
    IN  IF IsTerminal(tracked.status) THEN age < max_age_ms ELSE TRUE

cleanup(max_age_ms, now_ms) ==
    /\ active_intents' =
          Restrict(active_intents,
                   {id \in DOMAIN active_intents :
                       CleanupRetains(active_intents[id], now_ms, max_age_ms)})
    /\ last' = Called("cleanup", 0)
    /\ UNCHANGED <<registryVars, costVars, local_node_id, nodeVars>>

\* mutant: only intents not yet routed are counted
IsActivePendingOnly(status) == status.kind = "Pending"

IsActive(status) == status.kind \in {"Pending", "Routed", "Executing"}

\* active_count: a fold over the values of the map
RECURSIVE CountActive(_, _)
CountActive(intents, ids) ==
    IF ids = {} THEN 0
    ELSE LET id == CHOOSE x \in ids : TRUE
         IN  (IF IsActive(intents[id].status) THEN 1 ELSE 0)
             + CountActive(intents, ids \ {id})

active_count == CountActive(active_intents, DOMAIN active_intents)

---------------------------------------------------------------------------
(* mesh.rs *)

Addresses == {"a", "b"}

PeerInfo(node_id, address, now_ms) ==
    [node_id |-> node_id, address |-> address, connected_at_ms |-> now_ms,
     last_seen_ms |-> now_ms, capabilities |-> <<>>, cost |-> None]

PeerConnection(info, conn_state) == [info |-> info, state |-> conn_state]

\* MeshClient::new; instance tells one MeshClient object from another
MeshClient(instance) == [instance |-> instance, peers |-> << >>]

\* mutant: the entry is stored while the handshake is still to be made
MeshConnectConnecting(client, peer_id, address, now_ms) ==
    [client EXCEPT !.peers =
        Insert(@, peer_id,
               PeerConnection(PeerInfo(peer_id, address, now_ms), "Connecting"))]

\* connect on a client: peer_id is what NodeId::new() returned
MeshConnect(client, peer_id, address, now_ms) ==
    [client EXCEPT !.peers =
        Insert(@, peer_id,
               PeerConnection(PeerInfo(peer_id, address, now_ms), "Connected"))]

\* mutant: disconnect drops every entry of the table
MeshDisconnectDrains(client, node_id) == [client EXCEPT !.peers = << >>]

MeshDisconnect(client, node_id) ==
    [client EXCEPT !.peers = Restrict(@, DOMAIN @ \ {node_id})]

\* mutant: disconnect_all leaves the table as it is
MeshDisconnectNone(client) == client

MeshDisconnectAll(client) == [client EXCEPT !.peers = << >>]

peer_count(client) ==
    Cardinality({id \in DOMAIN client.peers :
                    client.peers[id].state = "Connected"})

\* get_peers: the infos of the Connected entries (in the order of the map)
get_peers(client) ==
    {client.peers[id].info : id \in {n \in DOMAIN client.peers :
                                        client.peers[n].state = "Connected"}}

get_peer(client, node_id) ==
    IF node_id \in DOMAIN client.peers THEN Some(client.peers[node_id].info)
    ELSE None

\* the ids NodeId::new() can return to connect: no entry of the table has one
NewPeerIds(client) == Peers \ DOMAIN client.peers

connect(address, now_ms) ==
    /\ mesh_client # None
    /\ \E peer_id \in NewPeerIds(mesh_client[1]) :
          /\ mesh_client' = Some(MeshConnect(mesh_client[1], peer_id, address, now_ms))
          /\ last' = Called("connect", peer_id)
    /\ UNCHANGED <<registryVars, costVars, local_node_id, active_intents,
                   config, state, state_lock, clients_created, pc, ret>>

disconnect(node_id) ==
    /\ mesh_client # None
    /\ mesh_client' = Some(MeshDisconnect(mesh_client[1], node_id))
    /\ last' = Called("disconnect", node_id)
    /\ UNCHANGED <<registryVars, costVars, local_node_id, active_intents,
                   config, state, state_lock, clients_created, pc, ret>>

disconnect_all ==
    /\ mesh_client # None
    /\ mesh_client' = Some(MeshDisconnectAll(mesh_client[1]))
    /\ last' = Called("disconnect_all", 0)
    /\ UNCHANGED <<registryVars, costVars, local_node_id, active_intents,
                   config, state, state_lock, clients_created, pc, ret>>

update_peer_capabilities(node_id, capabilities, now_ms) ==
    /\ mesh_client # None
    /\ mesh_client' =
          IF node_id \in DOMAIN mesh_client[1].peers
          THEN Some([mesh_client[1] EXCEPT
                        !.peers[node_id].info.capabilities = capabilities,
                        !.peers[node_id].info.last_seen_ms = now_ms])
          ELSE mesh_client
    /\ last' = [Called("update_peer_capabilities", node_id)
                   EXCEPT !.result = Some(capabilities)]
    /\ UNCHANGED <<registryVars, costVars, local_node_id, active_intents,
                   config, state, state_lock, clients_created, pc, ret>>

\* mutant: broadcast counts nobody
broadcast_sent_none(client) == 0

\* the count of broadcast's loop over the table
broadcast_sent(client) ==
    Cardinality({id \in DOMAIN client.peers :
                    client.peers[id].state = "Connected"})

broadcast ==
    /\ mesh_client # None
    /\ last' = [Called("broadcast", 0)
                   EXCEPT !.result = Some(broadcast_sent(mesh_client[1]))]
    /\ UNCHANGED <<registryVars, costVars, local_node_id, active_intents, nodeVars>>

\* mutant: send_to does not look the peer up
send_to_unchecked(node_id) ==
    /\ mesh_client # None
    /\ last' = Called("send_to", node_id)
    /\ UNCHANGED <<registryVars, costVars, local_node_id, active_intents, nodeVars>>

send_to(node_id) ==
    /\ mesh_client # None
    /\ last' = IF node_id \in DOMAIN mesh_client[1].peers
               THEN Called("send_to", node_id)
               ELSE [Called("send_to", node_id) EXCEPT !.ok = FALSE, !.err = "Network"]
    /\ UNCHANGED <<registryVars, costVars, local_node_id, active_intents, nodeVars>>

at_capacity(client) == peer_count(client) >= config.max_peers

\* MeshClient::update_peer_cost (the CostCollector has one of the same name)
mesh_update_peer_cost(node_id, cost, now_ms) ==
    /\ mesh_client # None
    /\ mesh_client' =
          IF node_id \in DOMAIN mesh_client[1].peers
          THEN Some([mesh_client[1] EXCEPT
                        !.peers[node_id].info.cost = Some(cost),
                        !.peers[node_id].info.last_seen_ms = now_ms])
          ELSE mesh_client
    /\ last' = [Called("update_peer_cost", node_id) EXCEPT !.result = Some(cost)]
    /\ UNCHANGED <<registryVars, costVars, local_node_id, active_intents,
                   config, state, state_lock, clients_created, pc, ret>>

---------------------------------------------------------------------------
(* node.rs *)

\* the tasks that call start(), stop() and state() on the one node
Callers == {1, 2}

DefaultMaxPeers == 50

NodeConfig(bootstrap_peers, max_peers) ==
    [bootstrap_peers |-> bootstrap_peers, max_peers |-> max_peers]

\* where a caller stands; i is the index of the bootstrap peer dialed next
At(position, i) == [at |-> position, i |-> i]
NotCalling == At("idle", 0)

\* what a call returned; value is the NodeState state() read
Returned(op, ok, err, value) == [op |-> op, ok |-> ok, err |-> err, value |-> value]
NothingReturned == Returned("none", TRUE, "", "")

\* AtmosphereNode::new
NodeNew(node_config) ==
    /\ config = node_config
    /\ state = "Stopped"
    /\ state_lock = None
    /\ mesh_client = None
    /\ clients_created = 0
    /\ pc = [p \in Callers |-> NotCalling]
    /\ ret = [p \in Callers |-> NothingReturned]

routerVars == <<local_node_id, active_intents, last>>

\* a task calls start() and waits for the write lock on state
start_call(p) ==
    /\ pc[p] = NotCalling
    /\ clients_created < MaxStarts
    /\ pc' = [pc EXCEPT ![p] = At("start", 0)]
    /\ UNCHANGED <<registryVars, costVars, routerVars, config, state, state_lock,
                   mesh_client, clients_created, ret>>

\* mutant: start goes on without waiting for the lock
start_acquire_unlocked(p) ==
    /\ pc[p] = At("start", 0)
    /\ state_lock' = Some(p)
    /\ pc' = [pc EXCEPT ![p] = At("start_check", 0)]
    /\ UNCHANGED <<registryVars, costVars, routerVars, config, state, mesh_client,
                   clients_created, ret>>

\* self.state.write().await: granted when no other task holds the lock
start_acquire(p) ==
    /\ pc[p] = At("start", 0)
    /\ state_lock = None
    /\ state_lock' = Some(p)
    /\ pc' = [pc EXCEPT ![p] = At("start_check", 0)]
    /\ UNCHANGED <<registryVars, costVars, routerVars, config, state, mesh_client,
                   clients_created, ret>>

\* mutant: start does not test the state
start_check_skipped(p) ==
    /\ pc[p] = At("start_check", 0)
    /\ pc' = [pc EXCEPT ![p] = At("start_starting", 0)]
    /\ UNCHANGED <<registryVars, costVars, routerVars, config, state, state_lock,
                   mesh_client, clients_created, ret>>

\* the test of the state: the error return drops the lock
start_check(p) ==
    /\ pc[p] = At("start_check", 0)
    /\ IF state # "Stopped"
       THEN /\ ret' = [ret EXCEPT ![p] = Returned("start", FALSE, "InvalidConfig", "")]
            /\ pc' = [pc EXCEPT ![p] = NotCalling]
            /\ state_lock' = None
       ELSE /\ pc' = [pc EXCEPT ![p] = At("start_starting", 0)]
            /\ UNCHANGED <<ret, state_lock>>
    /\ UNCHANGED <<registryVars, costVars, routerVars, config, state, mesh_client,
                   clients_created>>

start_starting(p) ==
    /\ pc[p] = At("start_starting", 0)
    /\ state' = "Starting"
    /\ pc' = [pc EXCEPT ![p] = At("start_new", 0)]
    /\ UNCHANGED <<registryVars, costVars, routerVars, config, state_lock,
                   mesh_client, clients_created, ret>>

\* MeshClient::new and the store into mesh_client
start_new(p) ==
    /\ pc[p] = At("start_new", 0)
    /\ mesh_client' = Some(MeshClient(clients_created + 1))
    /\ clients_created' = clients_created + 1
    /\ pc' = [pc EXCEPT ![p] = At("start_dial", 1)]
    /\ UNCHANGED <<registryVars, costVars, routerVars, config, state, state_lock, ret>>

\* mutant: a dial fails and start returns the error from where it stands
start_dial_fatal(p, now_ms) ==
    /\ pc[p].at = "start_dial"
    /\ pc[p].i <= Len(config.bootstrap_peers)
    /\ ret' = [ret EXCEPT ![p] = Returned("start", FALSE, "Network", "")]
    /\ pc' = [pc EXCEPT ![p] = NotCalling]
    /\ state_lock' = None
    /\ UNCHANGED <<registryVars, costVars, routerVars, config, state, mesh_client,
                   clients_created>>

\* one turn of the loop over config.bootstrap_peers; connect returns Ok
start_dial(p, now_ms) ==
    /\ pc[p].at = "start_dial"
    /\ mesh_client # None
    /\ pc[p].i <= Len(config.bootstrap_peers)
    /\ \E peer_id \in NewPeerIds(mesh_client[1]) :
          mesh_client' = Some(MeshConnect(mesh_client[1], peer_id,
                                          config.bootstrap_peers[pc[p].i], now_ms))
    /\ pc' = [pc EXCEPT ![p] = At("start_dial", pc[p].i + 1)]
    /\ UNCHANGED <<registryVars, costVars, routerVars, config, state, state_lock,
                   clients_created, ret>>

\* past the loop: Running, Ok, and the lock is dropped
start_finish(p) ==
    /\ pc[p].at = "start_dial"
    /\ mesh_client = None \/ pc[p].i > Len(config.bootstrap_peers)
    /\ state' = "Running"
    /\ state_lock' = None
    /\ ret' = [ret EXCEPT ![p] = Returned("start", TRUE, "", "")]
    /\ pc' = [pc EXCEPT ![p] = NotCalling]
    /\ UNCHANGED <<registryVars, costVars, routerVars, config, mesh_client,
                   clients_created>>

stop_call(p) ==
    /\ pc[p] = NotCalling
    /\ pc' = [pc EXCEPT ![p] = At("stop", 0)]
    /\ UNCHANGED <<registryVars, costVars, routerVars, config, state, state_lock,
                   mesh_client, clients_created, ret>>

stop_acquire(p) ==
    /\ pc[p] = At("stop", 0)
    /\ state_lock = None
    /\ state_lock' = Some(p)
    /\ pc' = [pc EXCEPT ![p] = At("stop_check", 0)]
    /\ UNCHANGED <<registryVars, costVars, routerVars, config, state, mesh_client,
                   clients_created, ret>>

\* mutant: stop does not test the state
stop_check_skipped(p) ==
    /\ pc[p] = At("stop_check", 0)
    /\ pc' = [pc EXCEPT ![p] = At("stop_stopping", 0)]
    /\ UNCHANGED <<registryVars, costVars, routerVars, config, state, state_lock,
                   mesh_client, clients_created, ret>>

stop_check(p) ==
    /\ pc[p] = At("stop_check", 0)
    /\ IF state # "Running"
       THEN /\ ret' = [ret EXCEPT ![p] = Returned("stop", FALSE, "NotInitialized", "")]
            /\ pc' = [pc EXCEPT ![p] = NotCalling]
            /\ state_lock' = None
       ELSE /\ pc' = [pc EXCEPT ![p] = At("stop_stopping", 0)]
            /\ UNCHANGED <<ret, state_lock>>
    /\ UNCHANGED <<registryVars, costVars, routerVars, config, state, mesh_client,
                   clients_created>>

\* mutant: stop goes on without writing Stopping
stop_stopping_skipped(p) ==
    /\ pc[p] = At("stop_stopping", 0)
    /\ pc' = [pc EXCEPT ![p] = At("stop_disconnect", 0)]
    /\ UNCHANGED <<registryVars, costVars, routerVars, config, state, state_lock,
                   mesh_client, clients_created, ret>>

stop_stopping(p) ==
    /\ pc[p] = At("stop_stopping", 0)
    /\ state' = "Stopping"
    /\ pc' = [pc EXCEPT ![p] = At("stop_disconnect", 0)]
    /\ UNCHANGED <<registryVars, costVars, routerVars, config, state_lock,
                   mesh_client, clients_created, ret>>

\* mutant: with the peers go what the registry and the collector know of them
stop_disconnect_all_forgets(p) ==
    /\ pc[p] = At("stop_disconnect", 0)
    /\ mesh_client' = IF mesh_client # None
                      THEN Some(MeshDisconnectAll(mesh_client[1])) ELSE mesh_client
    /\ remote' = << >>
    /\ peer_costs' = << >>
    /\ pc' = [pc EXCEPT ![p] = At("stop_discard", 0)]
    /\ UNCHANGED <<local, registry_locks, totals_seen, weights, metrics, routerVars,
                   config, state, state_lock, clients_created, ret>>

stop_disconnect_all(p) ==
    /\ pc[p] = At("stop_disconnect", 0)
    /\ mesh_client' = IF mesh_client # None
                      THEN Some(MeshDisconnectAll(mesh_client[1])) ELSE mesh_client
    /\ pc' = [pc EXCEPT ![p] = At("stop_discard", 0)]
    /\ UNCHANGED <<registryVars, costVars, routerVars, config, state, state_lock,
                   clients_created, ret>>

\* mutant: stop leaves the Mesh Client where it is
stop_finish_keeps_client(p) ==
    /\ pc[p] = At("stop_discard", 0)
    /\ state' = "Stopped"
    /\ state_lock' = None
    /\ ret' = [ret EXCEPT ![p] = Returned("stop", TRUE, "", "")]
    /\ pc' = [pc EXCEPT ![p] = NotCalling]
    /\ UNCHANGED <<registryVars, costVars, routerVars, config, clients_created,
                   mesh_client>>

\* the Mesh Client is dropped, then Stopped, Ok, and the lock is dropped
stop_finish(p) ==
    /\ pc[p] = At("stop_discard", 0)
    /\ mesh_client' = None
    /\ state' = "Stopped"
    /\ state_lock' = None
    /\ ret' = [ret EXCEPT ![p] = Returned("stop", TRUE, "", "")]
    /\ pc' = [pc EXCEPT ![p] = NotCalling]
    /\ UNCHANGED <<registryVars, costVars, routerVars, config, clients_created>>

\* mutant: state() reads the value without waiting for the lock
state_read_unlocked(p) ==
    /\ pc[p] = NotCalling
    /\ ret' = [ret EXCEPT ![p] = Returned("state", TRUE, "", state)]
    /\ UNCHANGED <<registryVars, costVars, routerVars, config, state, state_lock,
                   mesh_client, clients_created, pc>>

\* state(): a read lock, granted while no writer holds the lock
state_read(p) ==
    /\ pc[p] = NotCalling
    /\ state_lock = None
    /\ ret' = [ret EXCEPT ![p] = Returned("state", TRUE, "", state)]
    /\ UNCHANGED <<registryVars, costVars, routerVars, config, state, state_lock,
                   mesh_client, clients_created, pc>>

---------------------------------------------------------------------------
(* The routing decision over every registry and cost cache: the registry   *)
(* contents, the cached peer costs, the metrics readings and the router's  *)
(* node id are those some sequence of register, update_remote,             *)
(* update_peer_cost and set_local_node_id calls has left.                  *)

\* the registries and caches the calls above can leave behind
LocalMaps ==
    UNION {{f \in [D -> LocalCapabilities] : \A id \in D : f[id].id = id} :
              D \in SUBSET LocalCapIds}
RemoteMaps ==
    UNION {{f \in [D -> UNION {AdvertisedLists(p) : p \in D}] :
               \A p \in D : f[p] \in AdvertisedLists(p)} : D \in SUBSET Peers}
PeerCostMaps ==
    UNION {[D -> {NodeCost(c) : c \in PeerCostValues}] : D \in SUBSET Peers}

RouteIntents ==
    {Intent(1, t, m, p, 0) : t \in IntentTypes, m \in MaxCostValues, p \in BOOLEAN}

InitRoute ==
    /\ local \in LocalMaps
    /\ remote \in RemoteMaps
    /\ registry_locks = Unlocked
    /\ totals_seen = {}
    /\ peer_costs \in PeerCostMaps
    /\ weights = DefaultWeights
    /\ metrics \in MetricsReadings
    /\ local_node_id \in {None, Some(SelfId)}
    /\ active_intents = << >>
    /\ last = Idle
    /\ NodeNew(NodeConfig(<<>>, DefaultMaxPeers))

\* one call from each configuration: route overwrites the entry of the id it
\* is given and leaves the configuration alone, so a second call from the
\* same configuration reaches no further state
NextRoute == \E i \in RouteIntents : last = Idle /\ route(i)

SpecRoute == InitRoute /\ [][NextRoute]_vars

---------------------------------------------------------------------------
(* The lifecycle of tracked intents: a started node with one local camera, *)
(* one peer advertising a camera at a known cost, and callers that route   *)
(* intents and report their outcomes in any order.                         *)

Results == {"r1", "r2"}
FailReasons == {"execution failed"}
NowValues == {1}
MaxAgeValues == {1, 2}

\* per id: a local-first camera request, a remote-first one created in the
\* future of every clock reading, and a request nobody can serve
LifecycleIntents ==
    UNION {{Intent(id, "camera", OneCost, TRUE, 0),
            Intent(id, "camera", OneCost, FALSE, 2),
            Intent(id, "nonexistent", OneCost, TRUE, 0)} : id \in IntentIds}

InitIntents ==
    /\ local = Insert(<< >>, 1, Capability(1, "camera", TRUE, WeightOne))
    /\ remote = Insert(<< >>, 1, <<Capability(RemoteCapId(1, 1), "camera", TRUE, WeightOne)>>)
    /\ registry_locks = Unlocked
    /\ totals_seen = {}
    /\ peer_costs = Insert(<< >>, 1, NodeCost(20000))
    /\ weights = DefaultWeights
    /\ metrics = PluggedIn
    /\ local_node_id = Some(SelfId)
    /\ active_intents = << >>
    /\ last = Idle
    /\ NodeNew(NodeConfig(<<>>, DefaultMaxPeers))

NextIntents ==
    \/ \E i \in LifecycleIntents : route(i)
    \/ \E id \in IntentIds : \E r \in Results : complete(id, r)
    \/ \E id \in IntentIds : \E r \in FailReasons : fail(id, r)
    \/ \E id \in IntentIds : cancel(id)
    \/ \E a \in MaxAgeValues : \E n \in NowValues : cleanup(a, n)

SpecIntents == InitIntents /\ [][NextIntents]_vars

---------------------------------------------------------------------------
(* The node: tasks that call start(), stop() and state() concurrently on   *)
(* one AtmosphereNode with a local camera, and callers of its intent       *)
(* router.                                                                 *)

BootstrapLists == {<<>>, <<"a">>, <<"a", "b">>}
NodeConfigs == {NodeConfig(b, DefaultMaxPeers) : b \in BootstrapLists}
NodeNowValues == {1}
NodeIntents == {Intent(1, "camera", OneCost, TRUE, 0)}

InitNode ==
    /\ local = Insert(<< >>, 1, Capability(1, "camera", TRUE, WeightOne))
    /\ remote = << >>
    /\ registry_locks = Unlocked
    /\ totals_seen = {}
    /\ peer_costs = << >>
    /\ weights = DefaultWeights
    /\ metrics = PluggedIn
    /\ local_node_id = None
    /\ active_intents = << >>
    /\ last = Idle
    /\ \E c \in NodeConfigs : NodeNew(c)

NextNode ==
    \/ \E p \in Callers : start_call(p)
    \/ \E p \in Callers : start_acquire(p)
    \/ \E p \in Callers : start_check(p)
    \/ \E p \in Callers : start_starting(p)
    \/ \E p \in Callers : start_new(p)
    \/ \E p \in Callers : \E n \in NodeNowValues : start_dial(p, n)
    \/ \E p \in Callers : start_finish(p)
    \/ \E p \in Callers : stop_call(p)
    \/ \E p \in Callers : stop_acquire(p)
    \/ \E p \in Callers : stop_check(p)
    \/ \E p \in Callers : stop_stopping(p)
    \/ \E p \in Callers : stop_disconnect_all(p)
    \/ \E p \in Callers : stop_finish(p)
    \/ \E p \in Callers : state_read(p)
    \/ \E i \in NodeIntents : route(i)
    \/ set_local_node_id(SelfId)

SpecNode == InitNode /\ [][NextNode]_vars

\* the task holding the state lock runs on
SpecNodeLive ==
    /\ SpecNode
    /\ \A p \in Callers :
          /\ WF_vars(start_starting(p))
          /\ WF_vars(start_new(p))
          /\ WF_vars(\E n \in NodeNowValues : start_dial(p, n))
          /\ WF_vars(start_finish(p))

---------------------------------------------------------------------------
(* The mesh client on its own, as MeshClient::new leaves it, next to the   *)
(* registry and the cost collector of the same node: peers are connected   *)
(* and disconnected and report their capabilities and costs.               *)

MeshNowValues == {1}
ReportedLists == {<<>>, <<Capability(RemoteCapId(1, 1), "camera", TRUE, WeightOne)>>}
ReportedCosts == {NodeCost(c) : c \in PeerCostValues}
\* NodeConfig.max_peers of the client: one peer, or the default
MeshConfigs == {NodeConfig(<<>>, 1), NodeConfig(<<>>, DefaultMaxPeers)}

InitMesh ==
    /\ local = << >>
    /\ remote = << >>
    /\ registry_locks = Unlocked
    /\ totals_seen = {}
    /\ peer_costs = << >>
    /\ weights = DefaultWeights
    /\ metrics = PluggedIn
    /\ local_node_id = None
    /\ active_intents = << >>
    /\ last = Idle
    /\ config \in MeshConfigs
    /\ state = "Stopped"
    /\ state_lock = None
    /\ mesh_client = Some(MeshClient(1))
    /\ clients_created = 1
    /\ pc = [p \in Callers |-> NotCalling]
    /\ ret = [p \in Callers |-> NothingReturned]

NextMesh ==
    \/ \E a \in Addresses : \E n \in MeshNowValues : connect(a, n)
    \/ \E id \in Peers : disconnect(id)
    \/ disconnect_all
    \/ \E id \in Peers : \E c \in ReportedLists : \E n \in MeshNowValues :
          update_peer_capabilities(id, c, n)
    \/ \E id \in Peers : \E c \in ReportedCosts : \E n \in MeshNowValues :
          mesh_update_peer_cost(id, c, n)
    \/ broadcast
    \/ \E id \in Peers : send_to(id)

SpecMesh == InitMesh /\ [][NextMesh]_vars

---------------------------------------------------------------------------
(* The capability registry on its own: local capabilities of two types are *)
(* registered, registered again with another content, and unregistered;    *)
(* peers' lists are replaced and removed.                                  *)

RegistryTypes == {"camera", "llm"}
RegistryCapabilities ==
    {Capability(id, t, a, WeightOne) : id \in LocalCapIds, t \in RegistryTypes,
                                       a \in BOOLEAN}
RegistryLists(p) == AdvertisedLists(p) \cup {<<>>}

InitRegistry ==
    /\ local = << >>
    /\ remote = << >>
    /\ registry_locks = Unlocked
    /\ totals_seen = {}
    /\ peer_costs = << >>
    /\ weights = DefaultWeights
    /\ metrics = PluggedIn
    /\ local_node_id = None
    /\ active_intents = << >>
    /\ last = Idle
    /\ NodeNew(NodeConfig(<<>>, DefaultMaxPeers))

NextRegistry ==
    \/ \E c \in RegistryCapabilities : register(c)
    \/ \E id \in LocalCapIds : unregister(id)
    \/ \E p \in Peers : \E l \in RegistryLists(p) : update_remote(p, l)
    \/ \E p \in Peers : remove_remote(p)

SpecRegistry == InitRegistry /\ [][NextRegistry]_vars

---------------------------------------------------------------------------
(* Readers of the registry running concurrently with its writers.  A reader *)
(* takes the read guard of the map it reads, walks the map one element at a *)
(* time and drops the guard when it returns; what it has collected so far   *)
(* is in ret[p].value.  A writer (register, unregister, update_remote,      *)
(* remove_remote) needs the write guard, which it gets when no reader holds *)
(* the map.                                                                 *)

ReadGuard(map, p) == [registry_locks EXCEPT ![map] = @ \cup {p}]
DropGuard(map, p) == [registry_locks EXCEPT ![map] = @ \ {p}]

\* mutant: get_remote walks the map without taking the read guard
get_remote_read_unguarded(p, node_id) ==
    /\ pc[p] = NotCalling
    /\ pc' = [pc EXCEPT ![p] = At("get_remote_clone", 1)]
    /\ ret' = [ret EXCEPT ![p] =
                  Returned("get_remote", TRUE, "", [node_id |-> node_id, caps |-> <<>>])]
    /\ UNCHANGED <<registryVars, costVars, routerVars, config, state, state_lock,
                   mesh_client, clients_created>>

\* get_remote: self.remote.read().unwrap()
get_remote_read(p, node_id) ==
    /\ pc[p] = NotCalling
    /\ registry_locks' = ReadGuard("remote", p)
    /\ pc' = [pc EXCEPT ![p] = At("get_remote_clone", 1)]
    /\ ret' = [ret EXCEPT ![p] =
                  Returned("get_remote", TRUE, "", [node_id |-> node_id, caps |-> <<>>])]
    /\ UNCHANGED <<local, remote, totals_seen, costVars, routerVars, config, state, state_lock,
                   mesh_client, clients_created>>

\* get_remote: .get(node_id).cloned(), the next element of the Vec
get_remote_clone(p) ==
    /\ pc[p].at = "get_remote_clone"
    /\ LET caps == get_remote(ret[p].value.node_id)
           i == pc[p].i
       IN  /\ i <= Len(caps)
           /\ ret' = [ret EXCEPT ![p].value.caps = Append(@, caps[i])]
           /\ pc' = [pc EXCEPT ![p] = At("get_remote_clone", i + 1)]
    /\ UNCHANGED <<registryVars, costVars, routerVars, config, state, state_lock,
                   mesh_client, clients_created>>

\* get_remote: the clone is complete (or unwrap_or_default), the guard drops
get_remote_return(p) ==
    /\ pc[p].at = "get_remote_clone"
    /\ pc[p].i > Len(get_remote(ret[p].value.node_id))
    /\ registry_locks' = DropGuard("remote", p)
    /\ pc' = [pc EXCEPT ![p] = NotCalling]
    /\ UNCHANGED <<local, remote, totals_seen, costVars, routerVars, config, state, state_lock,
                   mesh_client, clients_created, ret>>

\* find_peers_with_capability: let remote = self.remote.read().unwrap();
\* `order` is the order in which the iterator will yield the peers
find_peers_read(p, capability_type, order) ==
    /\ pc[p] = NotCalling
    /\ registry_locks' = ReadGuard("remote", p)
    /\ pc' = [pc EXCEPT ![p] = At("find_peers_scan", 1)]
    /\ ret' = [ret EXCEPT ![p] =
                  Returned("find_peers_with_capability", TRUE, "",
                           [order |-> order, capability_type |-> capability_type,
                            k |-> 1, found |-> <<>>])]
    /\ UNCHANGED <<local, remote, totals_seen, costVars, routerVars, config, state, state_lock,
                   mesh_client, clients_created>>

\* find_peers_with_capability: one turn of the inner loop, or the step of the
\* outer loop to the next peer
find_peers_scan(p) ==
    /\ pc[p].at = "find_peers_scan"
    /\ LET v == ret[p].value
           i == pc[p].i
       IN  /\ v.k <= Len(v.order)
           /\ LET node_id == v.order[v.k]
                  caps == get_remote(node_id)
              IN  IF i <= Len(caps)
                  THEN /\ ret' = [ret EXCEPT ![p].value.found =
                                     IF caps[i].capability_type = v.capability_type
                                        /\ caps[i].available
                                     THEN Append(@, <<node_id, caps[i]>>)
                                     ELSE @]
                       /\ pc' = [pc EXCEPT ![p] = At("find_peers_scan", i + 1)]
                  ELSE /\ ret' = [ret EXCEPT ![p].value.k = @ + 1]
                       /\ pc' = [pc EXCEPT ![p] = At("find_peers_scan", 1)]
    /\ UNCHANGED <<registryVars, costVars, routerVars, config, state, state_lock,
                   mesh_client, clients_created>>

\* find_peers_with_capability: the iterator is exhausted, the guard drops
find_peers_return(p) ==
    /\ pc[p].at = "find_peers_scan"
    /\ ret[p].value.k > Len(ret[p].value.order)
    /\ registry_locks' = DropGuard("remote", p)
    /\ pc' = [pc EXCEPT ![p] = NotCalling]
    /\ UNCHANGED <<local, remote, totals_seen, costVars, routerVars, config, state, state_lock,
                   mesh_client, clients_created, ret>>

\* get: self.local.read().unwrap().get(&id), a reference to the entry if any
get_read(p, id) ==
    /\ pc[p] = NotCalling
    /\ registry_locks' = ReadGuard("local", p)
    /\ pc' = [pc EXCEPT ![p] = At("get_clone", 0)]
    /\ ret' = [ret EXCEPT ![p] =
                  Returned("get", TRUE, "",
                           [id |-> id, found |-> id \in DOMAIN local,
                            capability |-> None])]
    /\ UNCHANGED <<local, remote, totals_seen, costVars, routerVars, config, state, state_lock,
                   mesh_client, clients_created>>

\* get: .cloned() through the reference, then the guard drops
get_clone(p) ==
    /\ pc[p].at = "get_clone"
    /\ ret' = [ret EXCEPT ![p].value.capability =
                  IF ret[p].value.found THEN Some(local[ret[p].value.id]) ELSE None]
    /\ registry_locks' = DropGuard("local", p)
    /\ pc' = [pc EXCEPT ![p] = NotCalling]
    /\ UNCHANGED <<local, remote, totals_seen, costVars, routerVars, config, state, state_lock,
                   mesh_client, clients_created>>

\* total_count: let local_count = self.local.read().unwrap().len();
total_count_local(p) ==
    /\ pc[p] = NotCalling
    /\ pc' = [pc EXCEPT ![p] = At("total_count_remote", 0)]
    /\ ret' = [ret EXCEPT ![p] =
                  Returned("total_count", TRUE, "", Cardinality(DOMAIN local))]
    /\ totals_seen' = {Total(local, remote)}
    /\ UNCHANGED <<local, remote, registry_locks, costVars, routerVars, config, state,
                   state_lock, mesh_client, clients_created>>

\* total_count: the sum of the lengths under self.remote.read(), the return
total_count_remote(p) ==
    /\ pc[p].at = "total_count_remote"
    /\ pc' = [pc EXCEPT ![p] = NotCalling]
    /\ ret' = [ret EXCEPT ![p].value = @ + RemoteCount(remote, DOMAIN remote)]
    /\ totals_seen' = {}
    /\ UNCHANGED <<local, remote, registry_locks, costVars, routerVars, config, state,
                   state_lock, mesh_client, clients_created>>

RaceCapabilities == {Capability(1, "camera", a, WeightOne) : a \in BOOLEAN}
RaceLists(p) ==
    {<<>>,
     <<Capability(RemoteCapId(p, 1), "camera", FALSE, WeightOne)>>,
     <<Capability(RemoteCapId(p, 1), "camera", TRUE, 2 * WeightOne),
       Capability(RemoteCapId(p, 2), "camera", TRUE, WeightOne)>>}

\* the task that reads while the writers run
RegistryReaders == {1}

NextRegistryRace ==
    \/ \E c \in RaceCapabilities : register(c)
    \/ \E c \in RaceCapabilities : unregister(c.id)
    \/ \E n \in Peers : \E l \in RaceLists(n) : update_remote(n, l)
    \/ \E n \in Peers : remove_remote(n)
    \/ \E p \in RegistryReaders :
          \/ \E n \in Peers : get_remote_read(p, n)
          \/ get_remote_clone(p)
          \/ get_remote_return(p)
          \/ \E o \in IterationOrders(DOMAIN remote) : find_peers_read(p, "camera", o)
          \/ find_peers_scan(p)
          \/ find_peers_return(p)
          \/ \E c \in RaceCapabilities : get_read(p, c.id)
          \/ get_clone(p)
          \/ total_count_local(p)
          \/ total_count_remote(p)

SpecRegistryRace == InitRegistry /\ [][NextRegistryRace]_vars

---------------------------------------------------------------------------
(* The cost collector on its own: the battery drains and charges, the      *)
(* charger is plugged and unplugged, peers' costs are cached, replaced and *)
(* removed, and the cache is queried.                                      *)

BatteryPercents == 0 .. 100
OnBattery(percent) == [LowBattery EXCEPT !.battery = Some(percent)]
CostReadings == {OnBattery(percent) : percent \in BatteryPercents} \cup {PluggedIn}
CachedCostValues == {20000, 30000, 80000}

InitCost ==
    /\ local = << >>
    /\ remote = << >>
    /\ registry_locks = Unlocked
    /\ totals_seen = {}
    /\ peer_costs = << >>
    /\ weights = DefaultWeights
    /\ metrics \in CostReadings
    /\ local_node_id = None
    /\ active_intents = << >>
    /\ last = Idle
    /\ NodeNew(NodeConfig(<<>>, DefaultMaxPeers))

NextCost ==
    \/ \E m \in CostReadings : MetricsChange(m)
    \/ \E n \in Peers : \E c \in CachedCostValues : update_peer_cost(n, NodeCost(c))
    \/ \E n \in Peers : remove_peer_cost(n)
    \/ get_sorted_peer_costs
    \/ find_lowest_cost_peer

SpecCost == InitCost /\ [][NextCost]_vars

---------------------------------------------------------------------------
(* route() as the tasks of the runtime see it: the write guard of          *)
(* active_intents is taken to track the intent and dropped, and taken      *)
(* again by update_status once the decision is made; complete, fail,       *)
(* cancel and cleanup of other tasks run in between.  ret[p].value is the  *)
(* intent caller p is routing.                                             *)

\* route: self.active_intents.write().await.insert(intent_id, Pending)
route_track(p, intent) ==
    /\ pc[p] = NotCalling
    /\ active_intents' = Insert(active_intents, intent.id,
                                TrackedIntent(intent, Pending, None))
    /\ pc' = [pc EXCEPT ![p] = At("route_resolve", 0)]
    /\ ret' = [ret EXCEPT ![p] = Returned("route", TRUE, "", intent)]
    /\ UNCHANGED <<registryVars, costVars, local_node_id, last, config, state,
                   state_lock, mesh_client, clients_created>>

\* route: the decision, self.update_status(intent_id, ..).await, the return
route_resolve(p) ==
    /\ pc[p].at = "route_resolve"
    /\ LET intent == ret[p].value
           local_caps == find_local_by_type(intent.capability_type)
           queried == ~LocalFastPath(intent, local_caps, calculate_local_cost)
       IN  \E order \in IterationOrders(DOMAIN remote),
              cap0 \in (IF local_caps = {} THEN {0} ELSE local_caps),
              local_id \in (IF local_node_id = None THEN FreshIds
                            ELSE {local_node_id[1]}) :
               LET remote_caps ==
                       IF queried
                       THEN find_peers_with_capability(order, intent.capability_type)
                       ELSE <<>>
                   out == RouteDecide(intent, local_caps, cap0, local_id, remote_caps)
               IN  /\ active_intents' = update_status(active_intents, intent.id, out.status)
                   /\ last' = [op |-> "route", id |-> intent.id, ok |-> out.ok,
                               err |-> out.err, decision |-> out.decision,
                               remote_caps |-> remote_caps, result |-> None]
                   /\ ret' = [ret EXCEPT ![p] = Returned("route", out.ok, out.err, intent)]
    /\ pc' = [pc EXCEPT ![p] = NotCalling]
    /\ UNCHANGED <<registryVars, costVars, local_node_id, config, state,
                   state_lock, mesh_client, clients_created>>

\* per id one request: a camera request served locally, requests nobody serves
RaceIntents ==
    {Intent(id, IF id = 1 THEN "camera" ELSE "nonexistent", OneCost, TRUE, 0) :
        id \in IntentIds}
RaceResults == {"r1"}

NextRouteRace ==
    \/ \E p \in Callers : \E i \in RaceIntents : route_track(p, i)
    \/ \E p \in Callers : route_resolve(p)
    \/ \E id \in IntentIds : \E r \in RaceResults : complete(id, r)
    \/ \E id \in IntentIds : \E r \in FailReasons : fail(id, r)
    \/ \E id \in IntentIds : cancel(id)
    \/ \E a \in MaxAgeValues : \E n \in NowValues : cleanup(a, n)

SpecRouteRace == InitIntents /\ [][NextRouteRace]_vars

---------------------------------------------------------------------------
(* Routing while the peers' advertisements come and go: lists are replaced, *)
(* also by lists of another type or of unavailable capabilities, and        *)
(* removed, and requests that do not prefer the local node are routed.      *)

RoutedLists(p) ==
    AdvertisedLists(p) \cup {<<Capability(RemoteCapId(p, 1), "llm", TRUE, WeightOne)>>}
RoutedIntents == {Intent(1, t, OneCost, FALSE, 0) : t \in RegistryTypes}

NextRouteRegistry ==
    \/ \E n \in Peers : \E l \in RoutedLists(n) : update_remote(n, l)
    \/ \E n \in Peers : remove_remote(n)
    \/ \E i \in RoutedIntents : route(i)

SpecRouteRegistry == InitIntents /\ [][NextRouteRegistry]_vars

---------------------------------------------------------------------------
(* The node of a host that knows a peer: peer 1 advertises a camera and its *)
(* cost is cached before the node is started, stopped and started again by  *)
(* two tasks, while requests are routed.                                    *)

KnownPeerIntents == {Intent(1, "camera", OneCost, pl, 0) : pl \in BOOLEAN}

InitKnownPeer ==
    /\ local = Insert(<< >>, 1, Capability(1, "camera", TRUE, WeightOne))
    /\ remote = Insert(<< >>, 1, <<Capability(RemoteCapId(1, 1), "camera", TRUE, 2 * WeightOne)>>)
    /\ registry_locks = Unlocked
    /\ totals_seen = {}
    /\ peer_costs = Insert(<< >>, 1, NodeCost(20000))
    /\ weights = DefaultWeights
    /\ metrics = PluggedIn
    /\ local_node_id = Some(SelfId)
    /\ active_intents = << >>
    /\ last = Idle
    /\ \E c \in NodeConfigs : NodeNew(c)

NextKnownPeer ==
    \/ \E p \in Callers : start_call(p)
    \/ \E p \in Callers : start_acquire(p)
    \/ \E p \in Callers : start_check(p)
    \/ \E p \in Callers : start_starting(p)
    \/ \E p \in Callers : start_new(p)
    \/ \E p \in Callers : \E n \in NodeNowValues : start_dial(p, n)
    \/ \E p \in Callers : start_finish(p)
    \/ \E p \in Callers : stop_call(p)
    \/ \E p \in Callers : stop_acquire(p)
    \/ \E p \in Callers : stop_check(p)
    \/ \E p \in Callers : stop_stopping(p)
    \/ \E p \in Callers : stop_disconnect_all(p)
    \/ \E p \in Callers : stop_finish(p)
    \/ \E i \in KnownPeerIntents : route(i)

SpecKnownPeer == InitKnownPeer /\ [][NextKnownPeer]_vars

---------------------------------------------------------------------------
(* Vocabulary of the properties *)

\* the intent the last call was about, as tracked
LastIntent == active_intents[last.id].intent
LastDecision == last.decision[1]
RouteReturned == last.op = "route" /\ last.id \in DOMAIN active_intents

\* the available local capabilities of a type, read off the registry
AvailableLocal(type) ==
    {id \in DOMAIN local : local[id].available /\ local[id].capability_type = type}

\* the remote (peer, position) pairs advertising an available capability of a type
RemoteCandidates(type) ==
    {pk \in UNION {{<<p, k>> : k \in 1..Len(remote[p])} : p \in DOMAIN remote} :
        /\ remote[pk[1]][pk[2]].available
        /\ remote[pk[1]][pk[2]].capability_type = type}

\* the cost at which route weighs the remote candidate pk
CandidateCost(pk) == EffectiveCost(pk[1], remote[pk[1]][pk[2]])

LocalPreferred(intent) ==
    /\ AvailableLocal(intent.capability_type) # {}
    /\ intent.prefer_local
    /\ calculate_local_cost <= intent.max_cost

---------------------------------------------------------------------------
\* C1: with an available local capability of the type, prefer_local set and
\* the fresh local total_cost within max_cost, route returns a local decision
\* (target = the id given to set_local_node_id, cost = the local total_cost,
\* capability_id = a matching local capability) and the intent is
\* Routed{local node}, whatever the remote peers advertise.
C1_LocalPreference ==
    (RouteReturned /\ LocalPreferred(LastIntent)) =>
        /\ last.ok
        /\ LastDecision.is_local
        /\ local_node_id # None => LastDecision.target = local_node_id[1]
        /\ LastDecision.cost = calculate_local_cost
        /\ LastDecision.capability_id \in AvailableLocal(LastIntent.capability_type)
        /\ active_intents[last.id].status = Routed(LastDecision.target)

\* a local-preference decision taken although a remote peer is cheaper
C1_Witness ==
    /\ RouteReturned /\ LocalPreferred(LastIntent)
    /\ local_node_id # None
    /\ LastDecision.is_local
    /\ \E pk \in RemoteCandidates(LastIntent.capability_type) :
          CandidateCost(pk) < calculate_local_cost

\* C2: route returns an error exactly when there is no available local
\* capability of the type and no remote candidate whose effective cost is
\* within max_cost; the error is NoCapablePeer and the intent is tracked as
\* Failed.
C2_ErrorExactly ==
    RouteReturned =>
        /\ ~last.ok <=>
              /\ AvailableLocal(LastIntent.capability_type) = {}
              /\ \A pk \in RemoteCandidates(LastIntent.capability_type) :
                    CandidateCost(pk) > LastIntent.max_cost
        /\ ~last.ok =>
              /\ last.err = "NoCapablePeer"
              /\ active_intents[last.id].status.kind = "Failed"

\* an error although peers advertise the capability: all are over budget
C2_Witness ==
    /\ RouteReturned /\ ~last.ok
    /\ RemoteCandidates(LastIntent.capability_type) # {}

\* C3 as stated: whenever route succeeds, no other candidate, the local node
\* at its fresh total_cost or a remote peer at its effective cost, is within
\* max_cost and strictly cheaper than the returned decision.
C3_CheapestOverall ==
    (RouteReturned /\ last.ok) =>
        /\ \A pk \in RemoteCandidates(LastIntent.capability_type) :
              ~(/\ CandidateCost(pk) <= LastIntent.max_cost
                /\ CandidateCost(pk) < LastDecision.cost)
        /\ AvailableLocal(LastIntent.capability_type) # {} =>
              ~(/\ calculate_local_cost <= LastIntent.max_cost
                /\ calculate_local_cost < LastDecision.cost)

\* C3 as amended: whenever route succeeds, no remote candidate is within
\* max_cost and strictly cheaper than the returned decision, unless the
\* decision is the local-preference one (prefer_local set and the local
\* total_cost within max_cost), which is taken without looking at the peers;
\* and a remote decision is returned over a cheaper local node within budget
\* only when prefer_local is not set.
C3_CheapestRemoteUnlessPreferred ==
    (RouteReturned /\ last.ok) =>
        /\ ~LocalPreferred(LastIntent) =>
              \A pk \in RemoteCandidates(LastIntent.capability_type) :
                  ~(/\ CandidateCost(pk) <= LastIntent.max_cost
                    /\ CandidateCost(pk) < LastDecision.cost)
        /\ (/\ ~LastDecision.is_local
            /\ AvailableLocal(LastIntent.capability_type) # {}
            /\ calculate_local_cost <= LastIntent.max_cost
            /\ calculate_local_cost < LastDecision.cost) => ~LastIntent.prefer_local

\* a remote decision taken among candidates of different cost within budget
C3_Witness ==
    /\ RouteReturned /\ last.ok /\ ~LastDecision.is_local
    /\ \E pk \in RemoteCandidates(LastIntent.capability_type) :
          /\ CandidateCost(pk) <= LastIntent.max_cost
          /\ CandidateCost(pk) > LastDecision.cost

\* C4: a remote decision's cost is within max_cost and is the minimum
\* effective cost over all remote candidates of the type within max_cost;
\* among the candidates tied at that minimum the one met first in iteration
\* order is returned.
C4_RemoteMinimumFirstWins ==
    (RouteReturned /\ last.ok /\ ~LastDecision.is_local) =>
        LET type == LastIntent.capability_type
            listed == last.remote_caps
            CostAt(i) == EffectiveCost(listed[i][1], listed[i][2])
        IN  /\ LastDecision.cost <= LastIntent.max_cost
            /\ \E pk \in RemoteCandidates(type) : CandidateCost(pk) = LastDecision.cost
            /\ \A pk \in RemoteCandidates(type) :
                  CandidateCost(pk) <= LastIntent.max_cost =>
                      LastDecision.cost <= CandidateCost(pk)
            /\ {<<listed[i][1], listed[i][2].id>> : i \in DOMAIN listed}
                  = {<<pk[1], remote[pk[1]][pk[2]].id>> : pk \in RemoteCandidates(type)}
            /\ \E i \in DOMAIN listed :
                  /\ listed[i][1] = LastDecision.target
                  /\ listed[i][2].id = LastDecision.capability_id
                  /\ CostAt(i) = LastDecision.cost
                  /\ \A j \in 1..(i - 1) : CostAt(j) # LastDecision.cost

\* a remote decision with two candidates tied at the minimum
C4_Witness ==
    /\ RouteReturned /\ last.ok /\ ~LastDecision.is_local
    /\ \E i, j \in DOMAIN last.remote_caps :
          /\ i < j
          /\ last.remote_caps[i][1] = LastDecision.target
          /\ last.remote_caps[i][2].id = LastDecision.capability_id
          /\ EffectiveCost(last.remote_caps[j][1], last.remote_caps[j][2])
                = LastDecision.cost

\* the effective cost as the claim states it
ClaimedEffectiveCost(node_id, cap) ==
    ((IF node_id \in DOMAIN peer_costs
      THEN peer_costs[node_id].total_cost ELSE OneCost \div 2) * cap.cost_weight)
        \div WeightOne

\* C5: for every remote candidate route considers, the cost it compares is
\* (the cached peer total_cost, or 0.5 when the peer has none) multiplied by
\* the capability's cost_weight, also for a peer whose cost is unknown; a
\* remote decision carries that cost.
C5_WeightedEffectiveCost ==
    RouteReturned =>
        /\ \A i \in DOMAIN last.remote_caps :
              EffectiveCost(last.remote_caps[i][1], last.remote_caps[i][2])
                  = ClaimedEffectiveCost(last.remote_caps[i][1], last.remote_caps[i][2])
        /\ (last.ok /\ ~LastDecision.is_local) =>
              \E i \in DOMAIN last.remote_caps :
                  /\ last.remote_caps[i][2].id = LastDecision.capability_id
                  /\ LastDecision.cost
                        = ClaimedEffectiveCost(last.remote_caps[i][1], last.remote_caps[i][2])

\* C6: when no remote candidate is within max_cost and an available local
\* capability of the type exists, route returns a local decision at the fresh
\* local total_cost and marks the intent Routed{local node}, whether or not
\* prefer_local is set and also when the local cost exceeds max_cost.
C6_LocalFallback ==
    (/\ RouteReturned
     /\ AvailableLocal(LastIntent.capability_type) # {}
     /\ \A pk \in RemoteCandidates(LastIntent.capability_type) :
           CandidateCost(pk) > LastIntent.max_cost) =>
        /\ last.ok
        /\ LastDecision.is_local
        /\ LastDecision.cost = calculate_local_cost
        /\ local_node_id # None => LastDecision.target = local_node_id[1]
        /\ active_intents[last.id].status = Routed(LastDecision.target)

\* the fallback taken without preference, over budget, past peers over budget
C6_Witness ==
    /\ RouteReturned /\ last.ok /\ LastDecision.is_local
    /\ ~LastIntent.prefer_local
    /\ calculate_local_cost > LastIntent.max_cost
    /\ RemoteCandidates(LastIntent.capability_type) # {}
    /\ \A pk \in RemoteCandidates(LastIntent.capability_type) :
          CandidateCost(pk) > LastIntent.max_cost

\* C7: once a tracked intent's status is Completed, Failed, TimedOut or
\* Cancelled, a call of complete, fail or cancel on its id leaves the status
\* as it was.
C7_TerminalFinal ==
    [][\A id \in DOMAIN active_intents :
          (/\ active_intents[id].status.kind
                 \in {"Completed", "Failed", "TimedOut", "Cancelled"}
           /\ last'.op \in {"complete", "fail", "cancel"}
           /\ last'.id = id) =>
              /\ id \in DOMAIN active_intents'
              /\ active_intents'[id].status = active_intents[id].status]_vars

\* C8: when route returns Ok(decision), get_status of the intent is
\* Routed{decision.target}; an intent in Routed stays tracked with that very
\* status through every step that is not a complete, fail or cancel of its
\* id (or another route of the same id).
C8_RoutedUntilReported ==
    /\ []((last.op = "route" /\ last.ok) =>
             get_status(last.id) = Some(Routed(last.decision[1].target)))
    /\ [][\A id \in DOMAIN active_intents :
             (/\ active_intents[id].status.kind = "Routed"
              /\ ~(last'.op \in {"complete", "fail", "cancel", "route"}
                   /\ last'.id = id)) =>
                 /\ id \in DOMAIN active_intents'
                 /\ active_intents'[id].status = active_intents[id].status]_vars

\* a cleanup whose age limit the routed intent has reached has returned, and
\* the intent is still Routed
C8_Witness ==
    /\ last.op = "cleanup"
    /\ \E id \in DOMAIN active_intents :
          /\ active_intents[id].status.kind = "Routed"
          /\ active_intents[id].intent.created_at_ms = 0

\* C9: complete(id, result) on a tracked intent in Routed{t} or Executing{t}
\* leaves it Completed{t} with get_result(id) the given result; get_result(id)
\* is nothing for an intent not yet completed, and only complete(id, _) makes
\* it something.
C9_CompleteKeepsTargetAndResult ==
    /\ [](\A id \in DOMAIN active_intents :
             active_intents[id].status.kind \in {"Pending", "Routed", "Executing"}
                 => get_result(id) = None)
    /\ [][\A id \in IntentIds :
             /\ (/\ id \in DOMAIN active_intents
                 /\ active_intents[id].status.kind \in {"Routed", "Executing"}
                 /\ last'.op = "complete" /\ last'.id = id) =>
                    /\ id \in DOMAIN active_intents'
                    /\ active_intents'[id].status
                          = Completed(active_intents[id].status.target[1])
                    /\ active_intents'[id].result = last'.result
                    /\ last'.result # None
             /\ (get_result(id) = None /\ get_result(id)' # None) =>
                    (last'.op = "complete" /\ last'.id = id)]_vars

\* complete has returned on an intent that was routed to a node
C9_Witness ==
    /\ last.op = "complete"
    /\ last.id \in DOMAIN active_intents
    /\ active_intents[last.id].status.kind = "Completed"
    /\ active_intents[last.id].status.target[1] \notin FreshIds
    /\ get_result(last.id) = last.result

\* C10: active_count is the number of tracked intents in Pending, Routed or
\* Executing; the intent a cancel, fail or complete has just been called on
\* is not among them.
C10_ActiveCount ==
    /\ active_count =
          Cardinality({id \in DOMAIN active_intents :
                          active_intents[id].status.kind
                              \in {"Pending", "Routed", "Executing"}})
    /\ (last.op \in {"complete", "fail", "cancel"}
        /\ last.id \in DOMAIN active_intents) =>
           active_intents[last.id].status.kind
               \notin {"Pending", "Routed", "Executing"}

\* one of two tracked intents has been cancelled, the other still counts
C10_Witness ==
    /\ last.op = "cancel"
    /\ Cardinality(DOMAIN active_intents) = 2
    /\ last.id \in DOMAIN active_intents
    /\ active_count = 1

\* C11: cleanup(max_age_ms) removes exactly the tracked intents that are in
\* a terminal state and older than max_age_ms, the age being now minus
\* created_at_ms saturated at 0; every other intent is kept, a terminal one
\* whose age is max_age_ms or less included.
C11_CleanupRemovesOlderTerminal ==
    [][last'.op = "cleanup" =>
          \E max_age_ms \in MaxAgeValues : \E now_ms \in NowValues :
              active_intents' =
                  Restrict(active_intents,
                      {id \in DOMAIN active_intents :
                          LET created == active_intents[id].intent.created_at_ms
                              age == IF now_ms >= created THEN now_ms - created ELSE 0
                          IN  ~(/\ active_intents[id].status.kind
                                      \in {"Completed", "Failed", "Cancelled", "TimedOut"}
                                /\ age > max_age_ms)})]_vars

---------------------------------------------------------------------------
(* Vocabulary of the node's properties *)

StartOk == Returned("start", TRUE, "", "")
StartInvalidConfig == Returned("start", FALSE, "InvalidConfig", "")
StopOk == Returned("stop", TRUE, "", "")
StopNotInitialized == Returned("stop", FALSE, "NotInitialized", "")

\* the positions of start() and of stop() at which the state lock is held
StartHolding == {"start_check", "start_starting", "start_new", "start_dial"}
StopHolding == {"stop_check", "stop_stopping", "stop_disconnect", "stop_discard"}

\* the addresses of the peers in the table of a client, with their number
DialedAddresses(client) ==
    {client.peers[id].info.address : id \in DOMAIN client.peers}

\* C12: every change of the node's state is one of Stopped -> Starting,
\* Starting -> Running, Running -> Stopping, Stopping -> Stopped, whatever the
\* interleaving of the start() and stop() calls.
C12_StrictCycle ==
    [][state' # state =>
          <<state, state'>> \in {<<"Stopped", "Starting">>, <<"Starting", "Running">>,
                                 <<"Running", "Stopping">>, <<"Stopping", "Stopped">>}]_vars

\* a whole cycle has been gone through while another start() was waiting
C12_Witness ==
    /\ state = "Stopped"
    /\ clients_created = 1
    /\ \E p, q \in Callers : ret[p] = StopOk /\ pc[q] = At("start", 0)

\* C13: start() that finds the state other than Stopped returns InvalidConfig
\* and leaves the state, the Mesh Client and its peers as they were; start()
\* returns InvalidConfig in no other case.
C13_StartNotStopped ==
    [][\A p \in Callers :
          /\ (pc[p] = At("start_check", 0) /\ pc'[p] # pc[p] /\ state # "Stopped") =>
                /\ pc'[p] = NotCalling
                /\ ret'[p] = StartInvalidConfig
                /\ state' = state
                /\ mesh_client' = mesh_client
                /\ clients_created' = clients_created
          /\ (pc[p] = At("start_check", 0) /\ pc'[p] = NotCalling) => state # "Stopped"]_vars

\* start() has failed on a Running node that has its two peers
C13_Witness ==
    /\ state = "Running"
    /\ mesh_client # None
    /\ \E p \in Callers : pc[p] = NotCalling /\ ret[p] = StartInvalidConfig
    /\ peer_count(mesh_client[1]) = 2

\* C14: stop() that finds the state other than Running returns NotInitialized
\* and leaves the state as it was; stop() returns NotInitialized in no other
\* case.
C14_StopNotRunning ==
    [][\A p \in Callers :
          /\ (pc[p] = At("stop_check", 0) /\ pc'[p] # pc[p] /\ state # "Running") =>
                /\ pc'[p] = NotCalling
                /\ ret'[p] = StopNotInitialized
                /\ state' = state
                /\ mesh_client' = mesh_client
          /\ (pc[p] = At("stop_check", 0) /\ pc'[p] = NotCalling) => state # "Running"]_vars

\* stop() has failed on a node that was never started
C14_Witness ==
    /\ state = "Stopped"
    /\ clients_created = 0
    /\ \E p \in Callers : pc[p] = NotCalling /\ ret[p] = StopNotInitialized

\* C15: when stop() returns Ok the state is Stopped, the Mesh Client it
\* discards has no peer left and the node holds no Mesh Client; a start()
\* that then finds the node Stopped goes on, and the Mesh Client it stores is
\* a new one with an empty peer table.
C15_StartStopStart ==
    /\ [][\A p \in Callers :
             (pc[p] = At("stop_discard", 0) /\ pc'[p] = NotCalling) =>
                 /\ ret'[p] = StopOk
                 /\ state' = "Stopped"
                 /\ mesh_client' = None
                 /\ mesh_client # None => peer_count(mesh_client[1]) = 0]_vars
    /\ []((state = "Stopped" /\ state_lock = None) => mesh_client = None)
    /\ [][\A p \in Callers :
             (pc[p] = At("start_check", 0) /\ pc'[p] # pc[p] /\ state = "Stopped") =>
                 pc'[p] = At("start_starting", 0)]_vars
    /\ [][clients_created' # clients_created =>
                 /\ mesh_client = None
                 /\ mesh_client'[1].peers = << >>
                 /\ mesh_client'[1].instance > clients_created]_vars

\* the node runs again on its second Mesh Client, with its bootstrap peers
C15_Witness ==
    /\ state = "Running"
    /\ state_lock = None
    /\ clients_created = 2
    /\ mesh_client # None
    /\ mesh_client[1].instance = 2
    /\ Len(config.bootstrap_peers) = 2
    /\ peer_count(mesh_client[1]) = 2
    /\ \E p \in Callers : ret[p] = StartOk

\* C16: at most one start() or stop() is past the lock at a time; a Mesh
\* Client is created only in Starting by the call holding the lock while the
\* node holds none, so two start() calls that both returned Ok stand for two
\* clients; a Running node with no call past the lock has dialed each
\* bootstrap peer once; stop() goes on only from Running with no start()
\* past the lock, and fails only when it finds a state other than Running.
C16_NoRace ==
    /\ [](/\ \A p, q \in Callers :
                (pc[p].at \in StartHolding \cup StopHolding
                 /\ pc[q].at \in StartHolding \cup StopHolding) => p = q
          /\ \A p \in Callers :
                pc[p].at \in StartHolding \cup StopHolding => state_lock = Some(p)
          /\ state \in {"Starting", "Stopping"} => state_lock # None
          /\ \A p, q \in Callers :
                (p # q /\ ret[p] = StartOk /\ ret[q] = StartOk) => clients_created >= 2
          /\ (state = "Running" /\ state_lock = None) =>
                /\ mesh_client # None
                /\ peer_count(mesh_client[1]) = Len(config.bootstrap_peers))
    /\ [][clients_created' # clients_created =>
             /\ clients_created' = clients_created + 1
             /\ state = "Starting"
             /\ mesh_client = None]_vars
    /\ [][\A p \in Callers :
             /\ (pc[p] = At("stop_check", 0) /\ pc'[p] = At("stop_stopping", 0)) =>
                   /\ state = "Running"
                   /\ \A q \in Callers : pc[q].at \notin StartHolding
             /\ (pc[p] = At("start_check", 0) /\ pc'[p] = At("start_starting", 0)) =>
                   /\ state = "Stopped"
                   /\ \A q \in Callers \ {p} : pc[q].at \notin StartHolding]_vars

\* a start() waits for the lock while another start() is dialing
C16_Witness ==
    \E p, q \in Callers :
        /\ p # q
        /\ pc[p] = At("start_dial", 2)
        /\ pc[q] = At("start", 0)
        /\ state = "Starting"

\* C17: a start() that found the node Stopped returns, and returns Ok with
\* the state Running and one peer per configured bootstrap address in the
\* table of its Mesh Client.
C17_StartCompletes ==
    /\ [][\A p \in Callers :
             (pc[p].at \in {"start_starting", "start_new", "start_dial"}
              /\ pc'[p] = NotCalling) =>
                 /\ ret'[p] = StartOk
                 /\ state' = "Running"
                 /\ mesh_client' # None
                 /\ peer_count(mesh_client'[1]) = Len(config.bootstrap_peers)
                 /\ DialedAddresses(mesh_client'[1])
                       = {config.bootstrap_peers[i] : i \in DOMAIN config.bootstrap_peers}]_vars
    /\ \A p \in Callers :
          (pc[p].at \in {"start_starting", "start_new", "start_dial"})
              ~> (pc[p] = NotCalling /\ ret[p] = StartOk /\ state = "Running")

\* start() has returned Ok with both bootstrap peers dialed
C17_Witness ==
    /\ state = "Running"
    /\ mesh_client # None
    /\ DialedAddresses(mesh_client[1]) = {"a", "b"}
    /\ \E p \in Callers : pc[p] = NotCalling /\ ret[p] = StartOk

\* C18: once the node has been started, every local decision its router
\* returns has target node.id(), and the intent is tracked as
\* Routed{node.id()}.
C18_LocalTargetIsNodeId ==
    (/\ clients_created >= 1
     /\ state = "Running"
     /\ last.op = "route" /\ last.ok
     /\ last.decision[1].is_local) =>
        /\ last.decision[1].target = SelfId
        /\ get_status(last.id) = Some(Routed(SelfId))

\* C19: after update_peer_capabilities(peer, caps) on a connected peer the
\* registry's get_remote(peer) is caps, and after update_peer_cost(peer, cost)
\* the collector's get_peer_cost(peer) is cost.
C19_ReportsReachRegistryAndCollector ==
    /\ (/\ last.op = "update_peer_capabilities"
        /\ last.id \in DOMAIN mesh_client[1].peers) =>
           get_remote(last.id) = last.result[1]
    /\ (/\ last.op = "update_peer_cost"
        /\ last.id \in DOMAIN mesh_client[1].peers) =>
           get_peer_cost(last.id) = last.result

\* C20: peer_count() is the number of entries of the peer table; connect
\* adds one Connected entry under an id that had none and leaves the others
\* alone, disconnect(peer) returns Ok and removes that peer's entry and no
\* other, also when there is none, and disconnect_all leaves no entry.
C20_PeerCount ==
    /\ [](peer_count(mesh_client[1]) = Cardinality(DOMAIN mesh_client[1].peers))
    /\ [][LET peers == mesh_client[1].peers
              after == mesh_client'[1].peers
          IN  /\ last'.op = "connect" =>
                    /\ last'.id \notin DOMAIN peers
                    /\ DOMAIN after = DOMAIN peers \cup {last'.id}
                    /\ after[last'.id].state = "Connected"
                    /\ \A id \in DOMAIN peers : after[id] = peers[id]
                    /\ peer_count(mesh_client'[1]) = peer_count(mesh_client[1]) + 1
              /\ last'.op = "disconnect" =>
                    /\ last'.ok
                    /\ DOMAIN after = DOMAIN peers \ {last'.id}
                    /\ \A id \in DOMAIN after : after[id] = peers[id]
                    /\ peer_count(mesh_client'[1]) =
                          peer_count(mesh_client[1])
                              - (IF last'.id \in DOMAIN peers THEN 1 ELSE 0)
              /\ last'.op = "disconnect_all" => peer_count(mesh_client'[1]) = 0]_vars

\* the same address has been connected twice
C20_Witness ==
    /\ last.op = "connect"
    /\ peer_count(mesh_client[1]) = 2
    /\ \A id \in DOMAIN mesh_client[1].peers :
          mesh_client[1].peers[id].info.address = "a"

\* C21: broadcast returns the number of Connected peers of the table it is
\* called on, which is peer_count(), and leaves the table as it was.
C21_BroadcastCount ==
    [][last'.op = "broadcast" =>
          /\ last'.result = Some(peer_count(mesh_client[1]))
          /\ last'.ok
          /\ mesh_client' = mesh_client]_vars

\* broadcast to two connected peers has returned 2
C21_Witness ==
    /\ last.op = "broadcast"
    /\ last.result = Some(2)
    /\ peer_count(mesh_client[1]) = 2

\* C22: send_to(peer) fails, with a Network error, exactly when the peer has
\* no entry in the table; failing or not it leaves the table as it was.
C22_SendToUnknownFails ==
    [][last'.op = "send_to" =>
          /\ ~last'.ok <=> last'.id \notin DOMAIN mesh_client[1].peers
          /\ ~last'.ok => last'.err = "Network"
          /\ mesh_client' = mesh_client]_vars

\* send_to has failed on a client that has another peer connected
C22_Witness ==
    /\ last.op = "send_to"
    /\ ~last.ok
    /\ peer_count(mesh_client[1]) = 1

\* C23: the number of Connected peers of a MeshClient never exceeds its
\* NodeConfig.max_peers.
C23_PeerCountWithinMaxPeers ==
    peer_count(mesh_client[1]) <= config.max_peers

\* C24 as stated: get(C.id) keeps returning C through every registry
\* operation other than unregister(C.id).
C24_GetUntilUnregister ==
    [][\A id \in DOMAIN local :
          ~(last'.op = "unregister" /\ last'.id = id) => get(id)' = get(id)]_vars

\* C24 as amended: get(id) returns the capability last registered under id
\* through every registry operation other than unregister(id) and a register
\* of a capability carrying the same id, which replaces it; unregister(id)
\* returns what get(id) returned, after which get(id) returns nothing, and
\* so does a second unregister(id).
C24_GetUntilUnregisterOrReplaced ==
    [][/\ \A id \in LocalCapIds :
             ~(last'.op \in {"register", "unregister"} /\ last'.id = id) =>
                 get(id)' = get(id)
       /\ \A id \in LocalCapIds :
             (last'.op = "register" /\ last'.id = id) => get(id)' = last'.result
       /\ \A id \in LocalCapIds :
             (last'.op = "unregister" /\ last'.id = id) =>
                 /\ last'.result = get(id)
                 /\ get(id)' = None]_vars

\* unregister has returned a capability while another one stays registered
C24_Witness ==
    /\ last.op = "unregister"
    /\ last.result # None
    /\ get(last.id) = None
    /\ \E id \in LocalCapIds : get(id) # None

\* C25: find_local_by_type(t) holds only available local capabilities of
\* type t and every one of them; has_local_capability(t) is true exactly
\* when it holds one.
C25_FindLocalByType ==
    \A t \in RegistryTypes \cup {"nonexistent"} :
        /\ \A id \in find_local_by_type(t) :
              /\ id \in DOMAIN local
              /\ local[id].available
              /\ local[id].capability_type = t
        /\ \A id \in DOMAIN local :
              (local[id].available /\ local[id].capability_type = t) =>
                  id \in find_local_by_type(t)
        /\ has_local_capability(t) <=> find_local_by_type(t) # {}

\* two cameras are registered, one of them unavailable
C25_Witness ==
    \E id1, id2 \in DOMAIN local :
        /\ local[id1].capability_type = "camera" /\ ~local[id1].available
        /\ local[id2].capability_type = "camera" /\ local[id2].available
        /\ find_local_by_type("camera") = {id2}
        /\ ~has_local_capability("llm")

\* C26: after update_remote(peer, caps) get_remote(peer) is caps, whatever
\* the peer's list was; after remove_remote(peer) it is empty; both leave the
\* lists of the other peers and the local map as they were.
C26_UpdateRemoteReplaces ==
    [][\A peer \in Peers :
          /\ (last'.op = "update_remote" /\ last'.id = peer) =>
                get_remote(peer)' = last'.result[1]
          /\ (last'.op = "remove_remote" /\ last'.id = peer) =>
                get_remote(peer)' = <<>>
          /\ (last'.op \in {"update_remote", "remove_remote"} /\ last'.id = peer) =>
                /\ \A p \in Peers \ {peer} :
                      /\ get_remote(p)' = get_remote(p)
                      /\ p \in DOMAIN remote' <=> p \in DOMAIN remote
                /\ local' = local]_vars

\* a peer's two-element list has been replaced while another peer has a list
C26_Witness ==
    /\ last.op = "update_remote"
    /\ Len(last.result[1]) = 1
    /\ get_remote(last.id) = last.result[1]
    /\ \E p \in Peers \ {last.id} : Len(get_remote(p)) = 2

\* C27: whatever the writers do while a reader runs, what get_remote and
\* find_peers_with_capability return is built from complete lists the
\* registry holds for each peer (never a part of one list joined to a part
\* of another), and what get returns is a capability the registry holds
\* whole, or nothing.
C27_ReadersSeeWholeLists ==
    [][\A p \in Callers :
          /\ (pc[p].at = "get_remote_clone" /\ pc'[p] = NotCalling) =>
                ret'[p].value.caps = get_remote(ret[p].value.node_id)
          /\ (pc[p].at = "find_peers_scan" /\ pc'[p] = NotCalling) =>
                ret'[p].value.found =
                    find_peers_with_capability(ret[p].value.order,
                                               ret[p].value.capability_type)
          /\ (pc[p].at = "get_clone" /\ pc'[p] = NotCalling) =>
                ret'[p].value.capability = get(ret[p].value.id)]_vars

\* a reader has returned a peer's complete two-element list, which
\* update_remote has replaced since
C27_Witness ==
    \E p \in Callers :
        /\ pc[p] = NotCalling
        /\ ret[p].op = "get_remote"
        /\ Len(ret[p].value.caps) = 2
        /\ last.op = "update_remote"
        /\ last.id = ret[p].value.node_id
        /\ Len(get_remote(last.id)) = 1

\* C28: on battery, a reading with a lower percentage, both between 10 and
\* 100, never has a lower battery_cost than the reading it follows.
C28_BatteryCostMonotone ==
    [][(/\ metrics.on_battery /\ metrics'.on_battery
        /\ metrics.battery # None /\ metrics'.battery # None
        /\ metrics.battery[1] <= 100
        /\ metrics'.battery[1] >= 10
        /\ metrics'.battery[1] < metrics.battery[1]) =>
            calculate_battery_cost' >= calculate_battery_cost]_vars

\* C29: get_sorted_peer_costs returns every cached entry once, as cached
\* now, in non-decreasing order of total_cost; find_lowest_cost_peer returns
\* nothing exactly when the cache is empty and otherwise a cached peer no
\* other cached peer is cheaper than.
C29_SortedAndLowest ==
    /\ last.op = "get_sorted_peer_costs" =>
          LET costs == last.result[1]
          IN  /\ Len(costs) = Cardinality(DOMAIN peer_costs)
              /\ \A n \in DOMAIN peer_costs :
                    \E i \in 1 .. Len(costs) : costs[i] = <<n, peer_costs[n]>>
              /\ \A i, j \in 1 .. Len(costs) :
                    i < j => costs[i][2].total_cost <= costs[j][2].total_cost
    /\ last.op = "find_lowest_cost_peer" =>
          /\ last.result = None <=> DOMAIN peer_costs = {}
          /\ last.result # None =>
                /\ last.result[1] \in DOMAIN peer_costs
                /\ \A n \in DOMAIN peer_costs :
                      peer_costs[last.result[1]].total_cost <= peer_costs[n].total_cost

\* two costs are cached and the list starts with the cheaper one, peer 2
C29_Witness ==
    /\ last.op = "get_sorted_peer_costs"
    /\ Len(last.result[1]) = 2
    /\ last.result[1][1][1] = 2
    /\ last.result[1][1][2].total_cost < last.result[1][2][2].total_cost

\* C30: when complete, fail or cancel has given an intent a terminal status
\* while a route call for it is past tracking it, the status update route
\* makes before it returns leaves that terminal status in place.
C30_TerminalSurvivesRoute ==
    [][\A p \in Callers :
          (/\ pc[p].at = "route_resolve"
           /\ pc'[p] = NotCalling
           /\ last.op \in {"complete", "fail", "cancel"}
           /\ last.id = ret[p].value.id
           /\ last.id \in DOMAIN active_intents
           /\ IsTerminal(active_intents[last.id].status)) =>
              /\ last.id \in DOMAIN active_intents'
              /\ active_intents'[last.id].status = active_intents[last.id].status]_vars

\* C31: a tracked intent whose status has left Pending is never Pending
\* again, and a result stored for it is never dropped, as long as the intent
\* stays tracked; a second route call with the same id included.
C31_NeverPendingAgain ==
    [][\A id \in DOMAIN active_intents \cap DOMAIN active_intents' :
          /\ active_intents[id].status.kind # "Pending" =>
                active_intents'[id].status.kind # "Pending"
          /\ active_intents[id].result # None =>
                active_intents'[id].result # None]_vars

\* C32: what total_count returns is a total the registry had at some
\* instant between the call and its return.
C32_TotalCountOfOneInstant ==
    [][\A p \in Callers :
          (pc[p].at = "total_count_remote" /\ pc'[p] = NotCalling) =>
              ret'[p].value \in totals_seen]_vars

\* C33: at the moment a route call returns Ok(decision), the intent it
\* routed is tracked.
C33_RoutedIntentTracked ==
    [][\A p \in Callers :
          (pc[p].at = "route_resolve" /\ pc'[p] = NotCalling /\ ret'[p].ok) =>
              ret'[p].value.id \in DOMAIN active_intents']_vars

\* C34: with an available local capability of the intent's type registered,
\* route never fails: it returns a local decision or a remote decision whose
\* cost is within max_cost, whatever max_cost, prefer_local and the peers are.
C34_LocalCapabilityNeverFails ==
    (RouteReturned /\ AvailableLocal(LastIntent.capability_type) # {}) =>
        /\ last.ok
        /\ last.err # "NoCapablePeer"
        /\ LastDecision.is_local \/ LastDecision.cost <= LastIntent.max_cost

\* a remote decision within budget, taken past a preferred local capability
\* that costs more than max_cost
C34_Witness ==
    /\ RouteReturned /\ last.ok
    /\ AvailableLocal(LastIntent.capability_type) # {}
    /\ LastIntent.prefer_local
    /\ calculate_local_cost > LastIntent.max_cost
    /\ ~LastDecision.is_local
    /\ LastDecision.cost <= LastIntent.max_cost

\* C35: a remote decision names a capability that get_remote(target) holds
\* now, of the intent's type and available; a peer whose list was removed or
\* replaced by a list without such a capability is not the target.
C35_RemoteDecisionIsRegistered ==
    (RouteReturned /\ last.ok /\ ~LastDecision.is_local) =>
        \E k \in 1 .. Len(get_remote(LastDecision.target)) :
            LET c == get_remote(LastDecision.target)[k]
            IN  /\ c.id = LastDecision.capability_id
                /\ c.capability_type = LastIntent.capability_type
                /\ c.available

\* peer 1, which advertised a camera at first, has been removed, and the
\* camera request goes to peer 2
C35_Witness ==
    /\ RouteReturned /\ last.ok /\ ~LastDecision.is_local
    /\ LastIntent.capability_type = "camera"
    /\ 1 \notin DOMAIN remote
    /\ LastDecision.target = 2

\* C36: while no start or stop holds the node, the node holds a Mesh Client
\* exactly when it is Running: none when Stopped, and when Running the one
\* made by the latest start.
C36_ClientIffRunning ==
    state_lock = None =>
        /\ state \in {"Stopped", "Running"}
        /\ mesh_client # None <=> state = "Running"
        /\ state = "Running" => mesh_client[1].instance = clients_created

\* the node runs for the second time, on its second Mesh Client
C36_Witness ==
    /\ state_lock = None
    /\ \A p \in Callers : pc[p] = NotCalling
    /\ state = "Running"
    /\ mesh_client = Some([instance |-> 2, peers |-> mesh_client[1].peers])

\* C37: whatever start and stop calls run at the same time, state() returns
\* Stopped or Running, never Starting or Stopping.
C37_StateNeverIntermediate ==
    \A p \in Callers :
        ret[p].op = "state" => ret[p].value \in {"Stopped", "Running"}

\* state() has returned Running to one task and a stop of the other task has
\* since brought the node to Stopping
C37_Witness ==
    \E p, q \in Callers :
        /\ ret[p].op = "state" /\ ret[p].value = "Running"
        /\ pc[q].at \in StopHolding
        /\ state = "Stopping"

\* C38: no step of start or stop, to success or to an error, changes the
\* registry's maps, the collector's weights and cached peer costs, the
\* tracked intents or the router's node id; and at every stage of the node's
\* life a request that does not prefer the local node is routed to the peer
\* recorded at the outset, at the cost cached for it.
C38_StartStopFrame ==
    /\ [][(\E p \in Callers : pc'[p] # pc[p] \/ ret'[p] # ret[p]) =>
             /\ local' = local
             /\ remote' = remote
             /\ weights' = weights
             /\ peer_costs' = peer_costs
             /\ active_intents' = active_intents
             /\ local_node_id' = local_node_id]_vars
    /\ []((RouteReturned /\ ~LastIntent.prefer_local) =>
             /\ last.ok
             /\ ~LastDecision.is_local
             /\ LastDecision.target = 1
             /\ LastDecision.capability_id = RemoteCapId(1, 1)
             /\ LastDecision.cost = EffectiveCost(1, remote[1][1]))

\* the node has been started, stopped and started again, and the request
\* goes to the peer known since before the first start
C38_Witness ==
    /\ clients_created = 2
    /\ state = "Running"
    /\ state_lock = None
    /\ \E p \in Callers : ret[p] = StopOk
    /\ RouteReturned /\ last.ok /\ ~LastDecision.is_local
    /\ LastDecision.target = 1

\* C39: every entry of the peer table is Connected, so get_peer(id) returns
\* a peer exactly when get_peers() lists it, and then the same info, and
\* peer_count() is the number of entries of the table.
C39_EveryEntryConnected ==
    LET client == mesh_client[1]
    IN  /\ \A id \in DOMAIN client.peers : client.peers[id].state = "Connected"
        /\ \A id \in Peers :
              /\ get_peer(client, id) # None <=>
                    \E info \in get_peers(client) : info.node_id = id
              /\ get_peer(client, id) # None => get_peer(client, id)[1] \in get_peers(client)
        /\ peer_count(client) = Cardinality(DOMAIN client.peers)
        /\ Cardinality(get_peers(client)) = peer_count(client)

\* two peers are in the table and one of them has just reported its
\* capabilities
C39_Witness ==
    /\ last.op = "update_peer_capabilities"
    /\ last.id \in DOMAIN mesh_client[1].peers
    /\ Cardinality(DOMAIN mesh_client[1].peers) = 2
    /\ get_peer(mesh_client[1], last.id) # None

=============================================================================
